---------------------------- MODULE Spec2Model ----------------------------
(***************************************************************************)
(* Academica backend: the Requesting concept (pending-request table,       *)
(* respond / _awaitResponse), the HTTP boundary of startRequestingServer,  *)
(* the synchronization rules of src/syncs and the concepts they drive.     *)
(*                                                                         *)
(* All values carried by action inputs, outputs, frames and payloads are   *)
(* strings; a JSON object is a function from key strings to strings.       *)
(***************************************************************************)
EXTENDS Naturals, Integers, Sequences, FiniteSets, Bags, TLC

(***************************************************************************)
(* Bounds of the model.                                                    *)
(***************************************************************************)
\* number of requests submitted over a run
MaxReq == 2
\* number of respond invocations made by the environment in SpecReq
MaxCalls == 3
\* the number of HTTP POSTs the server handles
MaxPosts == 1

(***************************************************************************)
(* Program constants.                                                      *)
(***************************************************************************)
\* REQUESTING_TIMEOUT, in clock ticks (one tick stands for 5000ms)
REQUESTING_TIMEOUT == 2
\* REQUESTING_SAVE_RESPONSES, default true
REQUESTING_SAVE_RESPONSES == TRUE

VARIABLES
  pending,    \* keys of RequestingConcept.pending (Map<Request, PendingRequest>)
  promise,    \* the promise held by each PendingRequest: settled?, value
  requests,   \* the persisted collection Requesting.requests (RequestDoc by _id)
  http,       \* position of the caller of request() / _awaitResponse() per request
  calls,      \* bag of respond invocations suspended at the await of updateOne
  firstResp,  \* history: payload of the first respond executed per request
  respCount,  \* history: number of respond invocations executed per request
  db,         \* the collections of UserAuth, Session and CourseScheduling
  log,        \* the action log, per flow: one record per completed action
  todo,       \* per flow, the records whose rules are still to be evaluated
  aborted,    \* flows whose evaluation ended with an error thrown by an action
  replies,    \* replies sent by passthrough routes
  probe       \* arguments and result of the operation applied in the
              \* specifications that exercise one operation on its own

vars == <<pending, promise, requests, http, calls, firstResp, respCount,
          db, log, todo, aborted, replies, probe>>

EmptyMap == [k \in {} |-> ""]

\* freshID(): the n-th identifier handed out
freshID(n) == "r" \o ToString(n)

\* the response payloads the environment of SpecReq responds with
PayA == ("error" :> "E1")
PayB == ("success" :> "true")
EnvPayloads == {PayA, PayB}

\* the inputs the environment of SpecReq submits
EnvInputs == {("path" :> "/X/a")}

\* no operation is being exercised on its own
NoProbe == [op |-> "none"]

NoResult == [kind |-> "none", response |-> EmptyMap]

(***************************************************************************)
(* RequestingConcept.request                                               *)
(***************************************************************************)
\* the RequestDoc inserted by request()
RequestDoc(inputs) == [input |-> inputs, hasResponse |-> FALSE, response |-> EmptyMap]

\* a new unsettled promise
NewPromise == [settled |-> FALSE, value |-> EmptyMap]

\* Buggy variant: the id is returned without an entry in the pending table
requestUnregistered(inputs) ==
  /\ LET requestId == freshID(Cardinality(DOMAIN requests) + 1) IN
       /\ requests' = requests @@ (requestId :> RequestDoc(inputs))
       /\ promise' = promise @@ (requestId :> NewPromise)
       /\ pending' = pending
       /\ http' = http @@ (requestId :> [pc |-> "requested", elapsed |-> 0, result |-> NoResult])
       /\ firstResp' = firstResp @@ (requestId :> [set |-> FALSE, value |-> EmptyMap])
       /\ respCount' = respCount @@ (requestId :> 0)

\* request(inputs) as seen by its caller: the document is inserted, the pending
\* entry is set, the id is returned (the caller then holds it at "requested")
request(inputs) ==
  /\ LET requestId == freshID(Cardinality(DOMAIN requests) + 1) IN
       /\ requests' = requests @@ (requestId :> RequestDoc(inputs))
       /\ promise' = promise @@ (requestId :> NewPromise)
       /\ pending' = pending \cup {requestId}
       /\ http' = http @@ (requestId :> [pc |-> "requested", elapsed |-> 0, result |-> NoResult])
       /\ firstResp' = firstResp @@ (requestId :> [set |-> FALSE, value |-> EmptyMap])
       /\ respCount' = respCount @@ (requestId :> 0)

(***************************************************************************)
(* RequestingConcept.respond                                               *)
(***************************************************************************)
\* Buggy variant: resolve overwrites an already settled promise
ResolveOverwrite(p, response) == [settled |-> TRUE, value |-> response]

\* pendingRequest.resolve(response): settles the promise unless already settled
Resolve(p, response) ==
  IF p.settled THEN p ELSE [settled |-> TRUE, value |-> response]

\* first half of respond: pending.get(request), then resolve if found
RespondResolve(prom, pend, req, response) ==
  IF req \in pend THEN [prom EXCEPT ![req] = Resolve(prom[req], response)] ELSE prom

\* second half of respond: requests.updateOne({_id: request}, {$set: {response}})
RespondPersist(reqs, req, response) ==
  IF REQUESTING_SAVE_RESPONSES /\ req \in DOMAIN reqs
    THEN [reqs EXCEPT ![req] = [@ EXCEPT !.hasResponse = TRUE, !.response = response]]
    ELSE reqs

\* history kept for the properties: the first respond executed for req
NoteFirst(fr, req, response) ==
  IF req \in DOMAIN fr /\ ~fr[req].set
    THEN [fr EXCEPT ![req] = [set |-> TRUE, value |-> response]]
    ELSE fr

\* history kept for the properties: the number of responds executed for req
NoteCount(rc, req) ==
  IF req \in DOMAIN rc THEN [rc EXCEPT ![req] = @ + 1] ELSE rc

\* respond({request, ...response}) up to its await: lookup, resolve, suspend
RespondBegin(req, response) ==
  /\ promise' = RespondResolve(promise, pending, req, response)
  /\ calls' = calls (+) SetToBag({[request |-> req, response |-> response]})
  /\ firstResp' = NoteFirst(firstResp, req, response)
  /\ respCount' = NoteCount(respCount, req)
  /\ UNCHANGED <<pending, requests, http, db, log, todo, aborted, replies, probe>>

\* respond resumed: the persisted document is updated and respond returns
RespondEnd(c) ==
  /\ BagIn(c, calls)
  /\ requests' = RespondPersist(requests, c.request, c.response)
  /\ calls' = calls (-) SetToBag({c})
  /\ UNCHANGED <<pending, promise, http, firstResp, respCount, db, log, todo, aborted, replies, probe>>

(***************************************************************************)
(* RequestingConcept._awaitResponse                                        *)
(***************************************************************************)
\* Buggy variant: the timer fires without waiting for the delay
TimerFiredAtOnce(elapsed) == TRUE

\* setTimeout(..., this.timeout): has the timer fired after `elapsed` ticks
TimerFired(elapsed) == elapsed >= REQUESTING_TIMEOUT

\* Buggy variant: the cleanup empties the whole table
PendingClear(pend, req) == {}

\* Buggy variant: the cleanup leaves the entry in the table
PendingKeep(pend, req) == pend

\* finally: this.pending.delete(request)
PendingDelete(pend, req) == pend \ {req}

\* Buggy variant: an entry whose promise has been resolved counts as removed
NotPendingOrResolved(pend, req) == req \notin pend \/ promise[req].settled

\* const pendingRequest = this.pending.get(request); if (!pendingRequest) throw
NotPending(pend, req) == req \notin pend

\* entry of _awaitResponse: pending.get; throw if absent, else arm the timer
AwaitStart(req) ==
  /\ req \in DOMAIN http
  /\ http[req].pc = "requested"
  /\ IF ~NotPending(pending, req)
       THEN http' = [http EXCEPT ![req].pc = "waiting", ![req].elapsed = 0]
       ELSE http' = [http EXCEPT ![req].pc = "done",
                                 ![req].result = [kind |-> "notpending", response |-> EmptyMap]]
  /\ UNCHANGED <<pending, promise, requests, calls, firstResp, respCount, db, log, todo, aborted, replies, probe>>

\* Promise.race won by the pending promise: return [{response}]; finally delete
AwaitReturn(req) ==
  /\ req \in DOMAIN http
  /\ http[req].pc = "waiting"
  /\ promise[req].settled
  /\ http' = [http EXCEPT ![req].pc = "done",
                          ![req].result = [kind |-> "response", response |-> promise[req].value]]
  /\ pending' = PendingDelete(pending, req)
  /\ UNCHANGED <<promise, requests, calls, firstResp, respCount, db, log, todo, aborted, replies, probe>>

\* Promise.race won by the timer: the timeout error is thrown; finally delete
AwaitTimeout(req) ==
  /\ req \in DOMAIN http
  /\ http[req].pc = "waiting"
  /\ ~promise[req].settled
  /\ TimerFired(http[req].elapsed)
  /\ http' = [http EXCEPT ![req].pc = "done",
                          ![req].result = [kind |-> "timeout", response |-> EmptyMap]]
  /\ pending' = PendingDelete(pending, req)
  /\ UNCHANGED <<promise, requests, calls, firstResp, respCount, db, log, todo, aborted, replies, probe>>

\* one tick of time passes for every armed timer; a timer fires when its
\* delay has elapsed, so time does not pass beyond the delay of a waiter that
\* is still waiting; rule evaluation takes no time on the scale of the timeout
Tick ==
  /\ \E r \in DOMAIN http : http[r].pc = "waiting"
  /\ \A r \in DOMAIN http : http[r].pc = "waiting" => ~TimerFired(http[r].elapsed)
  /\ \A f \in DOMAIN todo : todo[f] = <<>>
  /\ http' = [r \in DOMAIN http |->
               IF http[r].pc = "waiting" THEN [http[r] EXCEPT !.elapsed = @ + 1] ELSE http[r]]
  /\ UNCHANGED <<pending, promise, requests, calls, firstResp, respCount, db, log, todo, aborted, replies, probe>>


(***************************************************************************)
(* The concepts behind the rules.                                          *)
(***************************************************************************)
\* the database the process starts on: two registered users, each with an
\* active session, and one schedule owned by the first user
InitDb ==
  [users |-> ("alice" :> [id |-> "U1", password |-> "pw1"]) @@
             ("bob" :> [id |-> "U2", password |-> "pw2"]),
   sessions |-> ("tok1" :> "U1") @@ ("tok2" :> "U2"),
   sessionsMade |-> 2,
   schedules |-> ("S1" :> [owner |-> "U1", name |-> "Spring", sectionIds |-> <<>>]),
   schedulesMade |-> 1,
   sections |-> EmptyMap,
   professorRatings |-> EmptyMap]

\* the outcome of a concept action: new database, output, or an error thrown
Returned(d, out) == [db |-> d, out |-> out, threw |-> FALSE]
Thrown(d) == [db |-> d, out |-> EmptyMap, threw |-> TRUE]

\* throw new Error(message)
ThrownWith(d, message) == [db |-> d, out |-> EmptyMap, threw |-> TRUE, message |-> message]

\* input[k], or "" for a key that is absent (undefined is falsy like "")
Field(input, k) == IF k \in DOMAIN input THEN input[k] ELSE ""

\* freshID() for a user: the n-th user identifier
freshUser(d) == "U" \o ToString(Cardinality(DOMAIN d.users) + 1)

\* Buggy variant: the username is not looked up before the insert
registerOverwrite(d, input, dbOk) ==
  LET username == Field(input, "username")
      password == Field(input, "password")
  IN IF ~dbOk
       THEN Returned(d, ("error" :> "Registration service unavailable. Please try again later."))
     ELSE Returned([d EXCEPT !.users = (username :> [id |-> freshUser(d), password |-> password]) @@ @],
                   ("user" :> freshUser(d)))

\* UserAuthConcept.register; dbOk is whether users.findOne and users.insertOne
\* succeed
register(d, input, dbOk) ==
  LET username == Field(input, "username")
      password == Field(input, "password")
  IN IF ~dbOk
       THEN Returned(d, ("error" :> "Registration service unavailable. Please try again later."))
     ELSE IF username \in DOMAIN d.users
       THEN Returned(d, ("error" :> "Username '" \o username \o "' is already taken."))
     ELSE Returned([d EXCEPT !.users = @ @@ (username :> [id |-> freshUser(d), password |-> password])],
                   ("user" :> freshUser(d)))

\* Buggy variant: the error of users.findOne is not caught
authenticateUncaught(d, input, dbOk) ==
  LET username == Field(input, "username")
      password == Field(input, "password")
  IN IF ~dbOk THEN Thrown(d)
     ELSE IF username \in DOMAIN d.users /\ d.users[username].password = password
       THEN Returned(d, ("user" :> d.users[username].id))
     ELSE Returned(d, ("error" :> "Invalid username or password."))

\* UserAuthConcept.authenticate; dbOk is whether users.findOne succeeds
authenticate(d, input, dbOk) ==
  LET username == Field(input, "username")
      password == Field(input, "password")
  IN IF ~dbOk
       THEN Returned(d, ("error" :> "Authentication service unavailable. Please try again later."))
     ELSE IF username \notin DOMAIN d.users
       THEN Returned(d, ("error" :> "Invalid username or password."))
     ELSE IF d.users[username].password = password
       THEN Returned(d, ("user" :> d.users[username].id))
     ELSE Returned(d, ("error" :> "Invalid username or password."))

\* Session.startSession({u}): a fresh session for user u, returned as {session}
startSession(d, input) ==
  LET tok == "tok" \o ToString(d.sessionsMade + 1)
  IN Returned([d EXCEPT !.sessions = @ @@ (tok :> Field(input, "u")),
                        !.sessionsMade = @ + 1],
              ("session" :> tok))

\* Session.useSession({s}): {} for an active session, {error} otherwise
useSession(d, s) ==
  IF s \in DOMAIN d.sessions THEN EmptyMap ELSE ("error" :> "Invalid session")

\* Session._getSession({s}): the session document (its userID), or null
getSession(d, s) ==
  IF s \in DOMAIN d.sessions
    THEN [found |-> TRUE, userID |-> d.sessions[s]]
    ELSE [found |-> FALSE, userID |-> ""]

\* Session.endSession({s}): removes the session; {error} if there is none
endSession(d, input) ==
  LET s == Field(input, "s")
  IN IF s \in DOMAIN d.sessions
       THEN Returned([d EXCEPT !.sessions = [t \in DOMAIN @ \ {s} |-> @[t]]], EmptyMap)
       ELSE Returned(d, ("error" :> "Invalid session"))

\* CourseSchedulingConcept.createSchedule
createSchedule(d, input) ==
  LET userId == Field(input, "userId")
      name == Field(input, "name")
      id == "S" \o ToString(d.schedulesMade + 1)
  IN IF userId = "" \/ name = ""
       THEN Thrown(d)
       ELSE Returned([d EXCEPT !.schedules = @ @@ (id :> [owner |-> userId, name |-> name,
                                                          sectionIds |-> <<>>]),
                               !.schedulesMade = @ + 1],
                     ("s" :> id))

\* the strings of one letter that the model's requests can carry
OneLetter == {"M", "T", "W", "R", "F", "X"}

\* the day stored for a day given: a string of one letter is kept as it is,
\* a day name becomes its letter, and "" stands for a name that is not a day
DayCode(day) ==
  CASE day \in OneLetter -> day
    [] day \in {"Monday", "monday"} -> "M"
    [] day \in {"Tuesday", "tuesday"} -> "T"
    [] day \in {"Wednesday", "wednesday"} -> "W"
    [] day \in {"Thursday", "thursday"} -> "R"
    [] day \in {"Friday", "friday"} -> "F"
    [] OTHER -> ""

\* CourseSchedulingConcept.createSection; a time slot is the day it is on, a
\* capacity is negative if it is written with a minus sign; the section
\* returned is named by its id
createSection(d, input) ==
  LET id == "X" \o ToString(Cardinality(DOMAIN d.sections) + 1)
      given == [k \in {"courseId", "sectionNumber", "instructor", "capacity"} |->
                  Field(input, k)]
      optional == IF "distribution" \in DOMAIN input
                    THEN ("distribution" :> input["distribution"]) ELSE EmptyMap
  IN IF given["courseId"] = "" \/ given["sectionNumber"] = "" \/ given["instructor"] = ""
          \/ given["capacity"] = "-1"
       THEN ThrownWith(d, "All fields (courseId, sectionNumber, instructor, capacity) are required")
     ELSE IF DayCode(Field(input, "timeSlots")) = ""
       THEN ThrownWith(d, "Invalid day: " \o Field(input, "timeSlots")
                            \o ". Expected one of: M, T, W, R, F or full day names.")
     ELSE Returned([d EXCEPT !.sections =
                               @ @@ (id :> (given @@ optional
                                              @@ ("timeSlots" :> DayCode(input["timeSlots"]))))],
                   ("s" :> id))

\* Buggy variant: the owner check compares the owner with the schedule id
deleteScheduleWrongOwnerCheck(d, input) ==
  LET userId == Field(input, "userId")
      scheduleId == Field(input, "scheduleId")
  IN IF scheduleId \notin DOMAIN d.schedules THEN Thrown(d)
     ELSE IF d.schedules[scheduleId].owner # scheduleId THEN Thrown(d)
     ELSE Returned([d EXCEPT !.schedules = [x \in DOMAIN @ \ {scheduleId} |-> @[x]]], EmptyMap)

\* CourseSchedulingConcept.deleteSchedule
deleteSchedule(d, input) ==
  LET userId == Field(input, "userId")
      scheduleId == Field(input, "scheduleId")
  IN IF scheduleId \notin DOMAIN d.schedules THEN ThrownWith(d, "Schedule not found")
     ELSE IF d.schedules[scheduleId].owner # userId THEN ThrownWith(d, "Unauthorized")
     ELSE Returned([d EXCEPT !.schedules = [x \in DOMAIN @ \ {scheduleId} |-> @[x]]], EmptyMap)

\* Buggy variant: $push instead of $addToSet
AddToSetPush(arr, x) == Append(arr, x)

\* {$addToSet: {sectionIds: x}}: x is appended to the array unless present
AddToSet(arr, x) ==
  IF \E i \in DOMAIN arr : arr[i] = x THEN arr ELSE Append(arr, x)

\* {$pull: {sectionIds: x}}: every occurrence of x is removed
Pull(arr, x) == SelectSeq(arr, LAMBDA y : y # x)

\* Buggy variant: an update that matched no schedule is not reported
addSectionSilent(d, input) ==
  LET userId == Field(input, "userId")
      scheduleId == Field(input, "scheduleId")
      sectionId == Field(input, "sectionId")
  IN IF scheduleId \in DOMAIN d.schedules /\ d.schedules[scheduleId].owner = userId
       THEN Returned([d EXCEPT !.schedules[scheduleId].sectionIds = AddToSet(@, sectionId)],
                     EmptyMap)
       ELSE Returned(d, EmptyMap)

\* CourseSchedulingConcept.addSection
addSection(d, input) ==
  LET userId == Field(input, "userId")
      scheduleId == Field(input, "scheduleId")
      sectionId == Field(input, "sectionId")
  IN IF scheduleId \in DOMAIN d.schedules /\ d.schedules[scheduleId].owner = userId
       THEN Returned([d EXCEPT !.schedules[scheduleId].sectionIds = AddToSet(@, sectionId)],
                     EmptyMap)
       ELSE ThrownWith(d, "Schedule not found or unauthorized")

\* Buggy variant: the filter of the update has no owner
removeSectionAnyOwner(d, input) ==
  LET scheduleId == Field(input, "scheduleId")
      sectionId == Field(input, "sectionId")
  IN IF scheduleId \in DOMAIN d.schedules
       THEN Returned([d EXCEPT !.schedules[scheduleId].sectionIds = Pull(@, sectionId)],
                     EmptyMap)
       ELSE Returned(d, EmptyMap)

\* CourseSchedulingConcept.removeSection
removeSection(d, input) ==
  LET userId == Field(input, "userId")
      scheduleId == Field(input, "scheduleId")
      sectionId == Field(input, "sectionId")
  IN IF scheduleId \in DOMAIN d.schedules /\ d.schedules[scheduleId].owner = userId
       THEN Returned([d EXCEPT !.schedules[scheduleId].sectionIds = Pull(@, sectionId)],
                     EmptyMap)
       ELSE Returned(d, EmptyMap)

\* Buggy variant: the copy starts without sections
duplicateScheduleEmpty(d, input) ==
  LET userId == Field(input, "userId")
      sourceScheduleId == Field(input, "sourceScheduleId")
      newName == Field(input, "newName")
      id == "S" \o ToString(d.schedulesMade + 1)
  IN IF sourceScheduleId \notin DOMAIN d.schedules
       THEN ThrownWith(d, "Source schedule not found")
     ELSE IF d.schedules[sourceScheduleId].owner # userId THEN ThrownWith(d, "Unauthorized")
     ELSE Returned([d EXCEPT !.schedules =
                               @ @@ (id :> [owner |-> userId, name |-> newName,
                                            sectionIds |-> <<>>]),
                             !.schedulesMade = @ + 1],
                   ("s" :> id))

\* CourseSchedulingConcept.duplicateSchedule
duplicateSchedule(d, input) ==
  LET userId == Field(input, "userId")
      sourceScheduleId == Field(input, "sourceScheduleId")
      newName == Field(input, "newName")
      id == "S" \o ToString(d.schedulesMade + 1)
  IN IF sourceScheduleId \notin DOMAIN d.schedules
       THEN ThrownWith(d, "Source schedule not found")
     ELSE IF d.schedules[sourceScheduleId].owner # userId THEN ThrownWith(d, "Unauthorized")
     ELSE Returned([d EXCEPT !.schedules =
                               @ @@ (id :> [owner |-> userId, name |-> newName,
                                            sectionIds |-> @[sourceScheduleId].sectionIds]),
                             !.schedulesMade = @ + 1],
                   ("s" :> id))

\* CourseSchedulingConcept.getSchedule: the ids of the schedules returned
getSchedule(d, scheduleId) ==
  IF scheduleId \in DOMAIN d.schedules THEN {scheduleId} ELSE {}

\* CourseSchedulingConcept.getSchedulesByOwner: the ids of the schedules returned
getSchedulesByOwner(d, userId) ==
  {x \in DOMAIN d.schedules : d.schedules[x].owner = userId}

(***************************************************************************)
(* The synchronization engine: action log, matcher, guard, dispatcher.     *)
(***************************************************************************)
\* a pattern slot: a free variable or a concrete value
Var(x) == [var |-> TRUE, v |-> x]
Val(x) == [var |-> FALSE, v |-> x]

\* a when-pattern (action, input pattern, output pattern)
When(action, input, output) == [action |-> action, input |-> input, output |-> output]
\* a then-template (action, input template)
Then(action, input) == [action |-> action, input |-> input]

\* Buggy variant: a variable is not compared with its binding
BindsUnchecked(pat, rec, frame) ==
  \A k \in DOMAIN pat :
    /\ k \in DOMAIN rec
    /\ ~pat[k].var => rec[k] = pat[k].v

\* does record part `rec` satisfy pattern `pat` given the bindings of `frame`:
\* every key of the pattern is present; a concrete value is equal; a variable
\* agrees with its binding, if any
Binds(pat, rec, frame) ==
  /\ \A k \in DOMAIN pat :
       /\ k \in DOMAIN rec
       /\ IF pat[k].var
            THEN pat[k].v \in DOMAIN frame => frame[pat[k].v] = rec[k]
            ELSE rec[k] = pat[k].v
  /\ \A k1, k2 \in DOMAIN pat :
       (pat[k1].var /\ pat[k2].var /\ pat[k1].v = pat[k2].v) => rec[k1] = rec[k2]

\* the frame extended with the variables the pattern newly binds
Extend(pat, rec, frame) ==
  LET new == {pat[k].v : k \in {j \in DOMAIN pat : pat[j].var}} \ DOMAIN frame
  IN frame @@ [x \in new |-> rec[CHOOSE k \in DOMAIN pat : pat[k].var /\ pat[k].v = x]]

RECURSIVE MatchPatternFirst(_, _, _, _)
RECURSIVE MatchPattern(_, _, _, _)

\* Buggy variant: only the first record that matches is joined
MatchPatternFirst(p, L, m, i) ==
  IF i > Len(L) THEN <<>>
  ELSE LET r == L[i]
           f1 == Extend(p.input, r.input, m.frame)
           ok == /\ r.action = p.action
                 /\ Binds(p.input, r.input, m.frame)
                 /\ Binds(p.output, r.output, f1)
       IN IF ok THEN <<[frame |-> Extend(p.output, r.output, f1),
                        recs |-> m.recs \cup {r.seq}]>>
                ELSE MatchPatternFirst(p, L, m, i + 1)

\* the matches of one pattern against the records L[i..], extending match m
MatchPattern(p, L, m, i) ==
  IF i > Len(L) THEN <<>>
  ELSE LET r == L[i]
           f1 == Extend(p.input, r.input, m.frame)
           ok == /\ r.action = p.action
                 /\ Binds(p.input, r.input, m.frame)
                 /\ Binds(p.output, r.output, f1)
       IN (IF ok THEN <<[frame |-> Extend(p.output, r.output, f1),
                         recs |-> m.recs \cup {r.seq}]>>
                 ELSE <<>>)
          \o MatchPattern(p, L, m, i + 1)

RECURSIVE MatchEach(_, _, _)

\* Buggy variant: only the first of the current matches is continued
MatchEachFirst(p, L, ms) ==
  IF ms = <<>> THEN <<>> ELSE MatchPattern(p, L, Head(ms), 1)

\* one pattern applied to each current match, in order
MatchEach(p, L, ms) ==
  IF ms = <<>> THEN <<>>
  ELSE MatchPattern(p, L, Head(ms), 1) \o MatchEach(p, L, Tail(ms))

\* the nested-loop join: patterns in declaration order
RECURSIVE MatchWhen(_, _, _)
MatchWhen(pats, L, ms) ==
  IF pats = <<>> THEN ms ELSE MatchWhen(Tail(pats), L, MatchEach(Head(pats), L, ms))

\* the matches of a rule on the records L; a rule without patterns never fires
Match(pats, L) ==
  IF pats = <<>> THEN <<>>
  ELSE MatchWhen(pats, L, <<[frame |-> EmptyMap, recs |-> {}]>>)

\* a then-template with the bound variables of the frame substituted
Instantiate(template, frame) ==
  LET keys == {k \in DOMAIN template : template[k].var => template[k].v \in DOMAIN frame}
  IN [k \in keys |-> IF template[k].var THEN frame[template[k].v] ELSE template[k].v]

\* respond() run to completion on the store st
respond(st, req, response) ==
  [st EXCEPT !.promise = RespondResolve(st.promise, st.pending, req, response),
             !.requests = RespondPersist(st.requests, req, response),
             !.firstResp = NoteFirst(st.firstResp, req, response),
             !.respCount = NoteCount(st.respCount, req)]

\* the concept action named by a then-template, run on database d
Exec(d, action, input, dbOk) ==
  CASE action = "UserAuth.authenticate" -> authenticate(d, input, dbOk)
    [] action = "Session.startSession" -> startSession(d, input)
    [] action = "Session.endSession" -> endSession(d, input)
    [] action = "CourseScheduling.createSchedule" -> createSchedule(d, input)
    [] action = "CourseScheduling.deleteSchedule" -> deleteSchedule(d, input)
    [] action = "CourseScheduling.addSection" -> addSection(d, input)
    [] action = "CourseScheduling.createSection" -> createSection(d, input)
    [] OTHER -> Returned(d, EmptyMap)

\* the Dispatcher: run the action; a thrown error ends the evaluation, a
\* result is appended to the log and queued for its own rule evaluation
Invoke(st, flow, action, input, dbOk) ==
  IF action = "Requesting.respond"
    THEN LET req == Field(input, "request")
             response == [k \in DOMAIN input \ {"request"} |-> input[k]]
             st1 == respond(st, req, response)
             seq == Len(st1.log) + 1
         IN [st1 EXCEPT !.log = Append(@, [seq |-> seq, action |-> action,
                                           input |-> input, output |-> ("request" :> req)]),
                        !.todo = Append(@, seq)]
    ELSE LET r == Exec(st.db, action, input, dbOk)
             seq == Len(st.log) + 1
         IN IF r.threw
              THEN [st EXCEPT !.threw = TRUE]
              ELSE [st EXCEPT !.db = r.db,
                              !.log = Append(@, [seq |-> seq, action |-> action,
                                                 input |-> input, output |-> r.out]),
                              !.todo = Append(@, seq)]

\* the then-templates of a rule, in declared order, for one frame
RECURSIVE DispatchThen(_, _, _, _, _)
DispatchThen(st, flow, thens, frame, dbOk) ==
  IF thens = <<>> \/ st.threw THEN st
  ELSE DispatchThen(Invoke(st, flow, Head(thens).action,
                           Instantiate(Head(thens).input, frame), dbOk),
                    flow, Tail(thens), frame, dbOk)

\* every surviving frame in turn
RECURSIVE DispatchFrames(_, _, _, _, _)
DispatchFrames(st, flow, thens, frames, dbOk) ==
  IF frames = <<>> \/ st.threw THEN st
  ELSE DispatchFrames(DispatchThen(st, flow, thens, Head(frames), dbOk),
                      flow, thens, Tail(frames), dbOk)

(***************************************************************************)
(* Guards (where clauses) of the CourseScheduling rules.                   *)
(***************************************************************************)
\* the three checks of the guards: session present, useSession without
\* error, _getSession returning a document with a userID
sessionInvalid(d, sess) ==
  \/ sess = ""
  \/ "error" \in DOMAIN useSession(d, sess)
  \/ ~getSession(d, sess).found
  \/ getSession(d, sess).userID = ""

\* Requesting.respond called by a guard; dbOk is whether its updateOne
\* succeeds: if not, the promise has been resolved and the error is thrown
guardRespond(st, req, response, dbOk) ==
  IF dbOk THEN respond(st, req, response)
  ELSE [st EXCEPT !.promise = RespondResolve(st.promise, st.pending, req, response),
                  !.firstResp = NoteFirst(st.firstResp, req, response),
                  !.respCount = NoteCount(st.respCount, req),
                  !.threw = TRUE]

RECURSIVE validateSessionNoContinue(_, _, _, _)
RECURSIVE validateSession(_, _, _, _)

\* Buggy variant: the loop goes on to result.push after it has responded
validateSessionNoContinue(st, frames, result, dbOk) ==
  IF st.threw THEN [st |-> st, frames |-> <<>>]
  ELSE IF frames = <<>> THEN [st |-> st, frames |-> result]
  ELSE LET frame == Head(frames)
           reqId == Field(frame, "request")
           sess == Field(frame, "session")
       IN validateSessionNoContinue(
            IF sessionInvalid(st.db, sess)
              THEN guardRespond(st, reqId,
                                ("error" :> "Unauthorized: valid session required."), dbOk)
              ELSE st,
            Tail(frames),
            Append(result, ("userId" :> getSession(st.db, sess).userID) @@ frame), dbOk)

\* validateSession(frames, request, session, userId); an error thrown inside
\* the loop ends the call, and no frame is returned
validateSession(st, frames, result, dbOk) ==
  IF st.threw THEN [st |-> st, frames |-> <<>>]
  ELSE IF frames = <<>> THEN [st |-> st, frames |-> result]
  ELSE LET frame == Head(frames)
           reqId == Field(frame, "request")
           sess == Field(frame, "session")
       IN IF sessionInvalid(st.db, sess)
            THEN validateSession(
                   guardRespond(st, reqId,
                                ("error" :> "Unauthorized: valid session required."), dbOk),
                   Tail(frames), result, dbOk)
            ELSE validateSession(st, Tail(frames),
                   Append(result, ("userId" :> getSession(st.db, sess).userID) @@ frame), dbOk)

\* validateScheduleOwnership(frames, request, scheduleId, session, userId)
RECURSIVE validateScheduleOwnership(_, _, _, _, _)
validateScheduleOwnership(st, frames, scheduleIdVar, result, dbOk) ==
  IF st.threw THEN [st |-> st, frames |-> <<>>]
  ELSE IF frames = <<>> THEN [st |-> st, frames |-> result]
  ELSE LET frame == Head(frames)
           reqId == Field(frame, "request")
           schedId == Field(frame, scheduleIdVar)
           sess == Field(frame, "session")
           uid == getSession(st.db, sess).userID
           deny == guardRespond(st, reqId,
                     ("error" :> "Unauthorized: user not permitted to modify this schedule."),
                     dbOk)
       IN IF sessionInvalid(st.db, sess)
            THEN validateScheduleOwnership(deny, Tail(frames), scheduleIdVar, result, dbOk)
          ELSE IF getSchedule(st.db, schedId) = {} \/ st.db.schedules[schedId].owner # uid
            THEN validateScheduleOwnership(deny, Tail(frames), scheduleIdVar, result, dbOk)
          ELSE validateScheduleOwnership(st, Tail(frames), scheduleIdVar,
                 Append(result, ("userId" :> uid) @@ frame), dbOk)

RECURSIVE GetAllSchedulesWherePush(_, _, _, _)
RECURSIVE GetAllSchedulesWhere(_, _, _, _)

\* Variant: a frame whose schedules were sent is also pushed to the result
GetAllSchedulesWherePush(st, frames, result, dbOk) ==
  IF st.threw THEN [st |-> st, frames |-> <<>>]
  ELSE IF frames = <<>> THEN [st |-> st, frames |-> result]
  ELSE LET frame == Head(frames)
           reqId == Field(frame, "request")
           sess == Field(frame, "session")
       IN IF sessionInvalid(st.db, sess)
            THEN GetAllSchedulesWherePush(
                   guardRespond(st, reqId,
                                ("error" :> "Unauthorized: valid session required."), dbOk),
                   Tail(frames), result, dbOk)
            ELSE GetAllSchedulesWherePush(
                   guardRespond(st, reqId,
                                ("schedules" :>
                                   getSchedulesByOwner(st.db, getSession(st.db, sess).userID)),
                                dbOk),
                   Tail(frames), Append(result, frame), dbOk)

\* the where clause of GetAllSchedulesRequest: every frame is answered by a
\* respond of the clause, and result, to which nothing is pushed, is returned
GetAllSchedulesWhere(st, frames, result, dbOk) ==
  IF st.threw THEN [st |-> st, frames |-> <<>>]
  ELSE IF frames = <<>> THEN [st |-> st, frames |-> result]
  ELSE LET frame == Head(frames)
           reqId == Field(frame, "request")
           sess == Field(frame, "session")
       IN IF sessionInvalid(st.db, sess)
            THEN GetAllSchedulesWhere(
                   guardRespond(st, reqId,
                                ("error" :> "Unauthorized: valid session required."), dbOk),
                   Tail(frames), result, dbOk)
            ELSE GetAllSchedulesWhere(
                   guardRespond(st, reqId,
                                ("schedules" :>
                                   getSchedulesByOwner(st.db, getSession(st.db, sess).userID)),
                                dbOk),
                   Tail(frames), result, dbOk)

\* the where clause of a rule applied to its frames
where(w, st, frames, dbOk) ==
  CASE w.name = "validateSession" -> validateSession(st, frames, <<>>, dbOk)
    [] w.name = "GetAllSchedulesRequest" -> GetAllSchedulesWhere(st, frames, <<>>, dbOk)
    [] w.name = "validateScheduleOwnership" ->
         validateScheduleOwnership(st, frames, w.scheduleId, <<>>, dbOk)
    [] OTHER -> [st |-> st, frames |-> frames]

NoWhere == [name |-> "none", scheduleId |-> ""]

(***************************************************************************)
(* The registered synchronizations.                                        *)
(***************************************************************************)
RequestOf(path) == When("Requesting.request", ("path" :> Val(path)), ("request" :> Var("request")))

\* a rule whose when clause lists one Requesting.request pattern per path,
\* all binding the same variable request, and that responds with an error
DisabledRoutes(name, paths, message) ==
  [name |-> name,
   when |-> [i \in 1..Len(paths) |-> RequestOf(paths[i])],
   where |-> NoWhere,
   then |-> <<Then("Requesting.respond",
                   ("request" :> Var("request")) @@ ("error" :> Val(message)))>>]

CSVImport_DisabledRoutes ==
  DisabledRoutes("CSVImport_DisabledRoutes",
    <<"/CSVImport/parseCSVFile", "/CSVImport/parseCSVLine", "/CSVImport/parseMeetingTime",
      "/CSVImport/parseDays", "/CSVImport/convertTo24Hour", "/CSVImport/importSectionsFromCSV",
      "/CSVImport/getAllSections", "/CSVImport/getSectionsByCourse",
      "/CSVImport/searchSections", "/CSVImport/getSectionsBySemester",
      "/CSVImport/clearAllSections", "/CSVImport/clearSectionsBySemester",
      "/CSVImport/updateSectionsWithSemester">>,
    "Route disabled: backend-only maintenance route.")

DeleteScheduleRequest ==
  [name |-> "DeleteScheduleRequest",
   when |-> <<When("Requesting.request",
                   ("path" :> Val("/CourseScheduling/deleteSchedule")) @@
                   ("scheduleId" :> Var("scheduleId")) @@ ("session" :> Var("session")),
                   ("request" :> Var("request")))>>,
   where |-> [name |-> "validateScheduleOwnership", scheduleId |-> "scheduleId"],
   then |-> <<Then("CourseScheduling.deleteSchedule",
                   ("userId" :> Var("userId")) @@ ("scheduleId" :> Var("scheduleId")))>>]

DeleteScheduleResponse ==
  [name |-> "DeleteScheduleResponse",
   when |-> <<RequestOf("/CourseScheduling/deleteSchedule"),
              When("CourseScheduling.deleteSchedule", EmptyMap, EmptyMap)>>,
   where |-> NoWhere,
   then |-> <<Then("Requesting.respond",
                   ("request" :> Var("request")) @@ ("success" :> Val("true")))>>]

AddSectionRequest ==
  [name |-> "AddSectionRequest",
   when |-> <<When("Requesting.request",
                   ("path" :> Val("/CourseScheduling/addSection")) @@
                   ("scheduleId" :> Var("scheduleId")) @@ ("sectionId" :> Var("sectionId")) @@
                   ("session" :> Var("session")),
                   ("request" :> Var("request")))>>,
   where |-> [name |-> "validateScheduleOwnership", scheduleId |-> "scheduleId"],
   then |-> <<Then("CourseScheduling.addSection",
                   ("userId" :> Var("userId")) @@ ("scheduleId" :> Var("scheduleId")) @@
                   ("sectionId" :> Var("sectionId")))>>]

AddSectionResponse ==
  [name |-> "AddSectionResponse",
   when |-> <<RequestOf("/CourseScheduling/addSection"),
              When("CourseScheduling.addSection", EmptyMap, EmptyMap)>>,
   where |-> NoWhere,
   then |-> <<Then("Requesting.respond",
                   ("request" :> Var("request")) @@ ("success" :> Val("true")))>>]

CreateScheduleRequest ==
  [name |-> "CreateScheduleRequest",
   when |-> <<When("Requesting.request",
                   ("path" :> Val("/CourseScheduling/createSchedule")) @@
                   ("name" :> Var("name")) @@ ("session" :> Var("session")),
                   ("request" :> Var("request")))>>,
   where |-> [name |-> "validateSession", scheduleId |-> ""],
   then |-> <<Then("CourseScheduling.createSchedule",
                   ("userId" :> Var("userId")) @@ ("name" :> Var("name")))>>]

CreateScheduleResponse ==
  [name |-> "CreateScheduleResponse",
   when |-> <<RequestOf("/CourseScheduling/createSchedule"),
              When("CourseScheduling.createSchedule", EmptyMap, ("s" :> Var("schedule")))>>,
   where |-> NoWhere,
   then |-> <<Then("Requesting.respond",
                   ("request" :> Var("request")) @@ ("s" :> Var("schedule")))>>]

\* the then-clause sends the empty list of schedules
GetAllSchedulesRequest ==
  [name |-> "GetAllSchedulesRequest",
   when |-> <<When("Requesting.request",
                   ("path" :> Val("/CourseScheduling/getAllSchedules")) @@
                   ("session" :> Var("session")),
                   ("request" :> Var("request")))>>,
   where |-> [name |-> "GetAllSchedulesRequest", scheduleId |-> ""],
   then |-> <<Then("Requesting.respond",
                   ("request" :> Var("request")) @@ ("schedules" :> Val({})))>>]

\* the keys of a createSection request that both request rules bind
SectionKeys == {"courseId", "sectionNumber", "capacity", "timeSlots"}

\* instructor is a variable of the rule that no pattern binds; the spread
\* ...(instructor !== undefined && {instructor}) puts it in the template,
\* since the variable itself is always defined
CreateSectionRequest ==
  [name |-> "CreateSectionRequest",
   when |-> <<When("Requesting.request",
                   ("path" :> Val("/CourseScheduling/createSection")) @@
                   [k \in SectionKeys \cup {"session"} |-> Var(k)],
                   ("request" :> Var("request")))>>,
   where |-> [name |-> "validateSession", scheduleId |-> ""],
   then |-> <<Then("CourseScheduling.createSection",
                   [k \in SectionKeys \cup {"instructor"} |-> Var(k)])>>]

CreateSectionRequestWithDistribution ==
  [name |-> "CreateSectionRequestWithDistribution",
   when |-> <<When("Requesting.request",
                   ("path" :> Val("/CourseScheduling/createSection")) @@
                   [k \in SectionKeys \cup {"distribution", "session"} |-> Var(k)],
                   ("request" :> Var("request")))>>,
   where |-> [name |-> "validateSession", scheduleId |-> ""],
   then |-> <<Then("CourseScheduling.createSection",
                   [k \in SectionKeys \cup {"distribution", "instructor"} |-> Var(k)])>>]

CreateSectionResponse ==
  [name |-> "CreateSectionResponse",
   when |-> <<RequestOf("/CourseScheduling/createSection"),
              When("CourseScheduling.createSection", EmptyMap, ("s" :> Var("section")))>>,
   where |-> NoWhere,
   then |-> <<Then("Requesting.respond",
                   ("request" :> Var("request")) @@ ("s" :> Var("section")))>>]

CourseScheduling_AdminRoutes ==
  DisabledRoutes("CourseScheduling_AdminRoutes", <<"/CourseScheduling/editSection">>,
    "Route disabled: admin/system-only route.")

EndSessionRequest ==
  [name |-> "EndSessionRequest",
   when |-> <<When("Requesting.request",
                   ("path" :> Val("/Session/endSession")) @@ ("session" :> Var("session")),
                   ("request" :> Var("request")))>>,
   where |-> NoWhere,
   then |-> <<Then("Session.endSession", ("s" :> Var("session")))>>]

EndSessionResponse ==
  [name |-> "EndSessionResponse",
   when |-> <<RequestOf("/Session/endSession"),
              When("Session.endSession", EmptyMap, ("error" :> Var("error")))>>,
   where |-> NoWhere,
   then |-> <<Then("Requesting.respond",
                   ("request" :> Var("request")) @@ ("error" :> Var("error")))>>]

EndSessionResponseSuccess ==
  [name |-> "EndSessionResponseSuccess",
   when |-> <<RequestOf("/Session/endSession"),
              When("Session.endSession", EmptyMap, EmptyMap)>>,
   where |-> NoWhere,
   then |-> <<Then("Requesting.respond",
                   ("request" :> Var("request")) @@ ("success" :> Val("true")))>>]

Session_DisabledRoutes ==
  DisabledRoutes("Session_DisabledRoutes",
    <<"/Session/startSession", "/Session/useSession", "/Session/extendSession",
      "/Session/_expireSessions", "/Session/_getUserSessions", "/Session/_getSession">>,
    "Route disabled: Session management routes are internal-only.")

AuthenticateRequest ==
  [name |-> "AuthenticateRequest",
   when |-> <<When("Requesting.request",
                   ("path" :> Val("/UserAuth/authenticate")) @@
                   ("username" :> Var("username")) @@ ("password" :> Var("password")),
                   ("request" :> Var("request")))>>,
   where |-> NoWhere,
   then |-> <<Then("UserAuth.authenticate",
                   ("username" :> Var("username")) @@ ("password" :> Var("password")))>>]

AuthenticateResponseSuccess ==
  [name |-> "AuthenticateResponseSuccess",
   when |-> <<RequestOf("/UserAuth/authenticate"),
              When("UserAuth.authenticate", EmptyMap, ("user" :> Var("user")))>>,
   where |-> NoWhere,
   then |-> <<Then("Session.startSession", ("u" :> Var("user")))>>]

\* Buggy variant: the rule waits for an output key startSession never returns
AuthenticateSessionResponseWrongKey ==
  [name |-> "AuthenticateSessionResponse",
   when |-> <<RequestOf("/UserAuth/authenticate"),
              When("Session.startSession", EmptyMap, ("s" :> Var("session")))>>,
   where |-> NoWhere,
   then |-> <<Then("Requesting.respond",
                   ("request" :> Var("request")) @@ ("session" :> Var("session")))>>]

\* Variant: the respond is made for the first request, whichever request
\* the session was started for
AuthenticateSessionResponseFirstRequest ==
  [name |-> "AuthenticateSessionResponse",
   when |-> <<RequestOf("/UserAuth/authenticate"),
              When("Session.startSession", EmptyMap, ("session" :> Var("session")))>>,
   where |-> NoWhere,
   then |-> <<Then("Requesting.respond",
                   ("request" :> Val(freshID(1))) @@ ("session" :> Var("session")))>>]

AuthenticateSessionResponse ==
  [name |-> "AuthenticateSessionResponse",
   when |-> <<RequestOf("/UserAuth/authenticate"),
              When("Session.startSession", EmptyMap, ("session" :> Var("session")))>>,
   where |-> NoWhere,
   then |-> <<Then("Requesting.respond",
                   ("request" :> Var("request")) @@ ("session" :> Var("session")))>>]

\* Buggy variant: the error rule is missing its respond
AuthenticateResponseErrorSilent ==
  [name |-> "AuthenticateResponseError",
   when |-> <<RequestOf("/UserAuth/authenticate"),
              When("UserAuth.authenticate", EmptyMap, ("error" :> Var("error")))>>,
   where |-> NoWhere,
   then |-> <<>>]

\* Variant: the respond carries the error that authenticate returned
AuthenticateResponseErrorForwards ==
  [name |-> "AuthenticateResponseError",
   when |-> <<RequestOf("/UserAuth/authenticate"),
              When("UserAuth.authenticate", EmptyMap, ("error" :> Var("error")))>>,
   where |-> NoWhere,
   then |-> <<Then("Requesting.respond",
                   ("request" :> Var("request")) @@ ("error" :> Var("error")))>>]

AuthenticateResponseError ==
  [name |-> "AuthenticateResponseError",
   when |-> <<RequestOf("/UserAuth/authenticate"),
              When("UserAuth.authenticate", EmptyMap, ("error" :> Var("error")))>>,
   where |-> NoWhere,
   then |-> <<Then("Requesting.respond",
                   ("request" :> Var("request")) @@
                   ("error" :> Val("Invalid username or password.")))>>]

UserAuth_InternalRoutes ==
  DisabledRoutes("UserAuth_InternalRoutes",
    <<"/UserAuth/_getUserByUsername", "/UserAuth/_getUserById">>,
    "Route disabled: UserAuth internal routes are not accessible.")

\* Engine.register(syncs): the rule registry
Syncs ==
  <<CSVImport_DisabledRoutes,
    DeleteScheduleRequest, DeleteScheduleResponse,
    AddSectionRequest, AddSectionResponse,
    CreateScheduleRequest, CreateScheduleResponse,
    CreateSectionRequest, CreateSectionRequestWithDistribution, CreateSectionResponse,
    GetAllSchedulesRequest,
    CourseScheduling_AdminRoutes,
    EndSessionRequest, EndSessionResponse, EndSessionResponseSuccess,
    Session_DisabledRoutes,
    AuthenticateRequest, AuthenticateResponseSuccess, AuthenticateSessionResponse,
    AuthenticateResponseError,
    UserAuth_InternalRoutes>>

(***************************************************************************)
(* Rule evaluation for one appended record.                                *)
(***************************************************************************)
\* the records of the flows of F, none of them the appended record
RECURSIVE RecordsOfFlows(_)
RecordsOfFlows(F) ==
  IF F = {} THEN <<>>
  ELSE LET g == CHOOSE h \in F : TRUE
       IN [i \in DOMAIN log[g] |-> [log[g][i] EXCEPT !.seq = 0]] \o RecordsOfFlows(F \ {g})

\* Variant: the when clause is joined over the records of every flow, the
\* appended record being one of the matched records
EvalSyncAnyFlow(st, flow, sync, rec, dbOk) ==
  LET ms == SelectSeq(Match(sync.when, RecordsOfFlows(DOMAIN log \ {flow})
                                         \o SubSeq(st.log, 1, rec.seq)),
                      LAMBDA m : rec.seq \in m.recs)
      frames == [i \in 1..Len(ms) |-> ms[i].frame]
      g == where(sync.where, st, frames, dbOk)
  IN DispatchFrames(g.st, flow, sync.then, g.frames, dbOk)

\* one rule: match within the flow of the record, on the log as it was when
\* the record was appended, keep the matches the record takes part in, run
\* the guard, dispatch the then-actions
EvalSync(st, flow, sync, rec, dbOk) ==
  LET ms == SelectSeq(Match(sync.when, SubSeq(st.log, 1, rec.seq)),
                      LAMBDA m : rec.seq \in m.recs)
      frames == [i \in 1..Len(ms) |-> ms[i].frame]
      g == where(sync.where, st, frames, dbOk)
  IN DispatchFrames(g.st, flow, sync.then, g.frames, dbOk)

\* every registered rule with a pattern on the action of the record
RECURSIVE Synchronize(_, _, _, _, _)
Synchronize(st, flow, syncs, rec, dbOk) ==
  IF syncs = <<>> \/ st.threw THEN st
  ELSE LET sync == Head(syncs)
           st1 == IF \E i \in DOMAIN sync.when : sync.when[i].action = rec.action
                    THEN EvalSync(st, flow, sync, rec, dbOk)
                    ELSE st
       IN Synchronize(st1, flow, Tail(syncs), rec, dbOk)

(***************************************************************************)
(* SpecReq: the Requesting concept driven by an arbitrary environment.     *)
(***************************************************************************)
Init ==
  /\ pending = {}
  /\ promise = EmptyMap
  /\ requests = EmptyMap
  /\ http = EmptyMap
  /\ calls = EmptyBag
  /\ firstResp = EmptyMap
  /\ respCount = EmptyMap
  /\ db = InitDb
  /\ log = EmptyMap
  /\ todo = EmptyMap
  /\ aborted = {}
  /\ replies = <<>>
  /\ probe = NoProbe

EnvRequest ==
  \E inputs \in EnvInputs :
    /\ Cardinality(DOMAIN requests) < MaxReq
    /\ request(inputs)
    /\ UNCHANGED <<calls, db, log, todo, aborted, replies, probe>>

\* the respond invocations executed so far
TotalResponds == LET S == DOMAIN respCount
                     RECURSIVE Sum(_)
                     Sum(T) == IF T = {} THEN 0
                               ELSE LET x == CHOOSE y \in T : TRUE IN respCount[x] + Sum(T \ {x})
                 IN Sum(S)

EnvRespond ==
  \E req \in DOMAIN requests, response \in EnvPayloads :
    /\ TotalResponds < MaxCalls
    /\ RespondBegin(req, response)

RespondResume == \E c \in BagToSet(calls) : RespondEnd(c)

AwaitStep ==
  \E req \in DOMAIN http : AwaitStart(req) \/ AwaitReturn(req) \/ AwaitTimeout(req)

NextReq ==
  \/ EnvRequest
  \/ EnvRespond
  \/ RespondResume
  \/ AwaitStep
  \/ Tick

SpecReq == Init /\ [][NextReq]_vars

\* the identifiers request() can hand out
ReqPool == {freshID(n) : n \in 1..MaxReq}

\* the timer and the continuation of _awaitResponse run when they can
FairSpecReq ==
  /\ SpecReq
  /\ WF_vars(Tick)
  /\ \A r \in ReqPool : WF_vars(AwaitStart(r) \/ AwaitReturn(r) \/ AwaitTimeout(r))

(***************************************************************************)
(* The HTTP server: passthrough routes and the Requesting route.           *)
(***************************************************************************)
\* the routes listed in exclusions (without the /api prefix), for the
\* concepts of this model
Exclusions ==
  {"/CSVImport/parseCSVFile", "/CourseScheduling/createCourse",
   "/CourseScheduling/createSection", "/CourseScheduling/editSection",
   "/CourseScheduling/getAllSchedules", "/CourseScheduling/createSchedule",
   "/CourseScheduling/deleteSchedule", "/CourseScheduling/addSection",
   "/CourseScheduling/removeSection", "/CourseScheduling/duplicateSchedule",
   "/Session/startSession", "/Session/endSession", "/Session/useSession",
   "/Session/extendSession", "/Session/_expireSessions", "/Session/_getUserSessions",
   "/Session/_getSession", "/UserAuth/register", "/UserAuth/authenticate",
   "/UserAuth/_getUserByUsername", "/UserAuth/_getUserById"}

\* /Concept/method for the concept methods of this model
ConceptMethods ==
  {"/CSVImport/parseCSVFile", "/CourseScheduling/editSection",
   "/CourseScheduling/createSection", "/CourseScheduling/getAllSchedules",
   "/CourseScheduling/createSchedule", "/CourseScheduling/deleteSchedule",
   "/CourseScheduling/addSection", "/CourseScheduling/getSchedule",
   "/CourseScheduling/getSchedulesByOwner", "/Session/startSession",
   "/Session/endSession", "/UserAuth/authenticate", "/UserAuth/_getUserById"}

\* Variant: the exclusions are not consulted when routes are registered
PassthroughRoutesAll == ConceptMethods

\* a passthrough route is registered for every method that is not excluded
PassthroughRoutes == ConceptMethods \ Exclusions

\* an HTTP POST: the path after /api, the JSON body, the session header
Post(path, body, header) == [path |-> path, body |-> body, header |-> header]

\* the body of a request to create a section
SectionBody ==
  ("courseId" :> "C1") @@ ("sectionNumber" :> "1") @@ ("instructor" :> "Kim")
    @@ ("capacity" :> "30") @@ ("timeSlots" :> "Monday")

\* the POSTs the clients of this model send
Posts ==
  {Post("/UserAuth/authenticate", ("username" :> "alice") @@ ("password" :> "pw1"), ""),
   Post("/UserAuth/authenticate", ("username" :> "alice") @@ ("password" :> "bad"), ""),
   Post("/UserAuth/authenticate", ("username" :> "mallory") @@ ("password" :> "pw1"), ""),
   Post("/CourseScheduling/createSchedule", ("name" :> "Fall"), ""),
   Post("/CourseScheduling/createSchedule", ("name" :> "Fall"), "tok2"),
   Post("/CourseScheduling/createSchedule", ("name" :> "") @@ ("session" :> "tok1"), ""),
   Post("/CourseScheduling/createSection", SectionBody, "tok1"),
   Post("/CourseScheduling/createSection", SectionBody @@ ("distribution" :> "HASS"), "tok1"),
   Post("/CourseScheduling/getAllSchedules", EmptyMap, "tok1"),
   Post("/CourseScheduling/getAllSchedules", ("session" :> "nope"), ""),
   Post("/CourseScheduling/getAllSchedules", ("session" :> ""), ""),
   Post("/CourseScheduling/deleteSchedule", ("scheduleId" :> "S1") @@ ("session" :> "tok1"), ""),
   Post("/CourseScheduling/deleteSchedule", ("scheduleId" :> "S1") @@ ("session" :> "tok2"), ""),
   Post("/CourseScheduling/addSection",
        ("scheduleId" :> "S9") @@ ("sectionId" :> "X1") @@ ("session" :> "tok1"), ""),
   Post("/Session/endSession", ("session" :> "tok1"), ""),
   Post("/Session/endSession", ("session" :> "nope"), ""),
   Post("/Session/startSession", ("u" :> "U1"), ""),
   Post("/CSVImport/parseCSVFile", EmptyMap, ""),
   Post("/UserAuth/_getUserById", ("id" :> "U1"), ""),
   Post("/CourseScheduling/editSection", EmptyMap, ""),
   Post("/CourseScheduling/getSchedule", ("scheduleId" :> "S1"), ""),
   Post("/CourseScheduling/getSchedule", ("scheduleId" :> "S1"), "tok1"),
   Post("/CourseScheduling/getSchedulesByOwner", ("userId" :> "U1"), "tok2")}

\* the POSTs handled so far
PostsHandled ==
  Cardinality(DOMAIN requests) + Len(replies) + (IF probe.op = "post" THEN 1 ELSE 0)

\* inputs = {...body, path: actionPath, ...(sessionId ? {session: sessionId} : {})}
HttpInputs(post) ==
  (IF post.header # "" THEN ("session" :> post.header) ELSE EmptyMap)
    @@ ("path" :> post.path) @@ post.body

\* the user the caller of a POST is authenticated as: the owner of the
\* session it presents, "" without a valid session
Caller(d, post) ==
  LET sess == Field(HttpInputs(post), "session")
  IN IF getSession(d, sess).found THEN getSession(d, sess).userID ELSE ""

\* concept[method](body) for the methods with a passthrough route: the
\* schedules the reply carries
PassthroughResult(d, post) ==
  CASE post.path = "/CourseScheduling/getSchedule" ->
         getSchedule(d, Field(post.body, "scheduleId"))
    [] post.path = "/CourseScheduling/getSchedulesByOwner" ->
         getSchedulesByOwner(d, Field(post.body, "userId"))
    [] OTHER -> {}

\* a POST on a passthrough route: the method is called with the body and its
\* result is the reply
PassthroughPost ==
  \E post \in Posts :
    /\ PostsHandled < MaxPosts
    /\ post.path \in PassthroughRoutes
    /\ replies' = Append(replies,
                    [path |-> post.path, caller |-> Caller(db, post),
                     owners |-> {db.schedules[x].owner : x \in PassthroughResult(db, post)}])
    /\ UNCHANGED <<pending, promise, requests, http, calls, firstResp, respCount,
                   db, log, todo, aborted, probe>>

\* a POST on the Requesting route up to the return of Requesting.request: the
\* request action runs, its record is appended and queued for the rules
RequestingRoute(post) ==
  /\ post.path \notin PassthroughRoutes
  /\ request(HttpInputs(post))
  /\ LET requestId == freshID(Cardinality(DOMAIN requests) + 1)
     IN /\ log' = log @@ (requestId :> <<[seq |-> 1, action |-> "Requesting.request",
                                           input |-> HttpInputs(post),
                                           output |-> ("request" :> requestId)]>>)
        /\ todo' = todo @@ (requestId :> <<1>>)
  /\ UNCHANGED <<calls, db, aborted, replies, probe>>

RequestingPost ==
  \E post \in Posts :
    /\ PostsHandled < MaxPosts
    /\ RequestingRoute(post)

\* the rules are evaluated for the oldest queued record of a flow; an error
\* thrown by a dispatched action ends the evaluation of the flow, and reaches
\* the HTTP handler only if that is still inside Requesting.request
EngineStep(flow, dbOk) ==
  /\ flow \in DOMAIN todo
  /\ todo[flow] # <<>>
  /\ \E st \in {Synchronize([promise |-> promise, pending |-> pending,
                             requests |-> requests, firstResp |-> firstResp,
                             respCount |-> respCount, db |-> db, log |-> log[flow],
                             todo |-> Tail(todo[flow]), threw |-> FALSE],
                            flow, Syncs, log[flow][Head(todo[flow])], dbOk)} :
       /\ promise' = st.promise
       /\ pending' = st.pending
       /\ requests' = st.requests
       /\ firstResp' = st.firstResp
       /\ respCount' = st.respCount
       /\ db' = st.db
       /\ log' = [log EXCEPT ![flow] = st.log]
       /\ todo' = [todo EXCEPT ![flow] = IF st.threw THEN <<>> ELSE st.todo]
       /\ aborted' = IF st.threw THEN aborted \cup {flow} ELSE aborted
       /\ \/ http' = http
          \/ /\ st.threw
             /\ http[flow].pc = "requested"
             /\ http' = [http EXCEPT ![flow].pc = "done",
                                     ![flow].result = [kind |-> "error", response |-> EmptyMap]]
  /\ UNCHANGED <<calls, replies, probe>>

\* the database can fail only where it is read without a session being
\* involved, in users.findOne of authenticate, which the request record of
\* an authentication triggers
ReadsUsers(flow) ==
  /\ todo[flow] # <<>>
  /\ Head(todo[flow]) = 1
  /\ log[flow][1].input["path"] = "/UserAuth/authenticate"

EngineRun ==
  \E flow \in DOMAIN todo :
    \E dbOk \in (IF ReadsUsers(flow) THEN BOOLEAN ELSE {TRUE}) : EngineStep(flow, dbOk)

(***************************************************************************)
(* Spec: the server with its registered rules.                             *)
(***************************************************************************)
Next ==
  \/ PassthroughPost
  \/ RequestingPost
  \/ EngineRun
  \/ AwaitStep
  \/ Tick

Spec == Init /\ [][Next]_vars

\* the identifiers the Requesting route can hand out
PostPool == {freshID(n) : n \in 1..MaxPosts}

\* some flow has a record whose rules are still to be evaluated; this is
\* ENABLED <<EngineRun>>_vars, since a step of EngineRun always removes the
\* head of a non-empty queue
EngineEnabled == \E flow \in DOMAIN todo : todo[flow] # <<>>

\* rule evaluation, the timer and the continuation of _awaitResponse run
\* when they can; the third conjunct is WF_vars(EngineRun) with its ENABLED
\* written as EngineEnabled
FairSpec ==
  /\ Spec
  /\ WF_vars(Tick)
  /\ []<>(~EngineEnabled) \/ []<><<EngineRun>>_vars
  /\ \A r \in PostPool : WF_vars(AwaitStart(r) \/ AwaitReturn(r) \/ AwaitTimeout(r))

(***************************************************************************)
(* Properties of the Requesting concept (checked under SpecReq).           *)
(***************************************************************************)

\* C1: at-most-once resolution. Whatever the number and interleaving of the
\* respond invocations for a request, the promise its waiter races holds the
\* payload of the first respond executed, and a waiter that returned a
\* payload returned that one.
C1_AtMostOnceResolution ==
  \A r \in DOMAIN http :
    /\ promise[r].settled =>
          firstResp[r].set /\ promise[r].value = firstResp[r].value
    /\ http[r].result.kind = "response" =>
          firstResp[r].set /\ http[r].result.response = firstResp[r].value

\* C1 witness: two responds with different payloads were executed for a
\* request (the later one is seen in the persisted document) and the waiter
\* returned the payload of the first.
C1_Witness ==
  \E r \in DOMAIN http :
    /\ respCount[r] >= 2
    /\ http[r].result.kind = "response"
    /\ http[r].result.response = firstResp[r].value
    /\ requests[r].hasResponse
    /\ requests[r].response # firstResp[r].value

\* C2 (as claimed): once a response is recorded for a request, no later step
\* changes the value held for the waiter nor the response stored in the
\* persisted request document.
C2_ResolutionNeverChanges ==
  [][\A r \in DOMAIN requests :
       /\ promise[r].settled => promise'[r] = promise[r]
       /\ requests[r].hasResponse => requests'[r].response = requests[r].response]_vars

\* C3: timeout floor. A waiter returns a payload only if a respond was
\* executed for its request; it raises the timeout error no earlier than
\* REQUESTING_TIMEOUT after the wait began; it never waits longer than that;
\* and every wait ends.
C3_Safety ==
  \A r \in DOMAIN http :
    /\ http[r].result.kind = "response" => respCount[r] > 0
    /\ http[r].result.kind = "timeout" => http[r].elapsed >= REQUESTING_TIMEOUT
    /\ http[r].elapsed <= REQUESTING_TIMEOUT

C3_TimeoutFloor ==
  /\ []C3_Safety
  /\ \A r \in ReqPool :
       (r \in DOMAIN http) ~>
         (r \in DOMAIN http /\ http[r].pc = "done"
            /\ (respCount[r] = 0 => http[r].result.kind = "timeout"))

\* C3 witness: a request nobody responded to ended in the timeout error
\* exactly REQUESTING_TIMEOUT after its wait began.
C3_Witness ==
  \E r \in DOMAIN http :
    /\ respCount[r] = 0
    /\ http[r].result.kind = "timeout"
    /\ http[r].elapsed = REQUESTING_TIMEOUT

\* a step of request(), respond(a) or _awaitResponse(a)
StepAbout(a) ==
  \/ EnvRequest
  \/ \E response \in EnvPayloads : RespondBegin(a, response)
  \/ \E c \in BagToSet(calls) : c.request = a /\ RespondEnd(c)
  \/ AwaitStart(a) \/ AwaitReturn(a) \/ AwaitTimeout(a)

\* C5: for distinct requests a and b that are both waiting, a step of
\* request(), respond(a) or _awaitResponse(a) leaves b's pending entry, b's
\* promise (the payload its waiter will observe), b's waiter and b's
\* persisted document unchanged.
C5_NoInterference ==
  [][\A a, b \in DOMAIN http :
       (a # b /\ b \in pending /\ http[b].pc = "waiting" /\ StepAbout(a)) =>
         /\ b \in pending'
         /\ promise'[b] = promise[b]
         /\ http'[b] = http[b]
         /\ requests'[b] = requests[b]]_vars

\* C5 witness: request a was resolved and its waiter has cleaned up while
\* request b is still waiting with its entry in the table.
C5_Witness ==
  \E a, b \in DOMAIN http :
    /\ a # b
    /\ http[a].pc = "done"
    /\ http[a].result.kind = "response"
    /\ http[b].pc = "waiting"
    /\ b \in pending
    /\ ~promise[b].settled

\* _awaitResponse(r) has ended in one of its two terminal states
Terminal(r) ==
  /\ http[r].pc = "done"
  /\ http[r].result.kind \in {"response", "timeout"}

\* C14: the pending entry is released in both terminal states. After
\* _awaitResponse(r) has returned a payload or raised the timeout error the
\* table holds no entry for r: a further _awaitResponse(r) takes the 'not
\* pending' branch, and a further respond(r) finds no entry, so it resolves
\* nothing for r.
C14_EntryReleased ==
  /\ [](\A r \in DOMAIN http :
          Terminal(r) =>
            /\ r \notin pending
            /\ NotPending(pending, r)
            /\ \A response \in EnvPayloads :
                 RespondResolve(promise, pending, r, response) = promise)
  /\ [][\A r \in DOMAIN http :
          Terminal(r) => (Terminal(r)' /\ promise'[r] = promise[r])]_vars

\* C14 witness: a waiter timed out, a respond for its request was executed
\* afterwards and found no entry (the promise is still unsettled), while
\* another waiter has returned a payload
C14_Witness ==
  \E r, q \in DOMAIN http :
    /\ http[r].pc = "done"
    /\ http[r].result.kind = "timeout"
    /\ respCount[r] >= 1
    /\ ~promise[r].settled
    /\ r \notin pending
    /\ http[q].pc = "done"
    /\ http[q].result.kind = "response"
    /\ q \notin pending


(***************************************************************************)
(* Properties of the server with its rules (checked under Spec, FairSpec). *)
(***************************************************************************)
\* the path a request was submitted for
PathOf(r) == requests[r].input["path"]

\* the HTTP handler of request r has finished
Done(r) == r \in DOMAIN http /\ http[r].pc = "done"

\* the HTTP handler of request r has finished with a payload from respond
Answered(r) == Done(r) /\ http[r].result.kind = "response"

\* the rules that answer a list of paths with a "Route disabled" error
DisabledRules ==
  <<CSVImport_DisabledRoutes, Session_DisabledRoutes, UserAuth_InternalRoutes,
    CourseScheduling_AdminRoutes>>

\* the paths these rules list, and the payloads they respond with
DisabledPaths ==
  UNION {{DisabledRules[n].when[i].input["path"].v : i \in DOMAIN DisabledRules[n].when} :
           n \in DOMAIN DisabledRules}

\* C4: exactly-once resolution by the rules. For every request, the rules
\* and guards dispatch at most one Requesting.respond over its lifetime; for
\* a /Session/endSession request whose endSession returns {error} only the
\* error response is dispatched, not the {success: true} response as well.
C4_AtMostOneRespondPerRequest ==
  \A r \in DOMAIN respCount : respCount[r] <= 1

\* C6: a /CourseScheduling/createSchedule request submitted with a name and
\* without any session field is answered with the payload
\* {error: "Unauthorized: valid session required."}; its handler does not end
\* in a timeout.
C6_NoSessionIsAnsweredUnauthorized ==
  \A r \in DOMAIN http :
    (/\ PathOf(r) = "/CourseScheduling/createSchedule"
     /\ "session" \notin DOMAIN requests[r].input
     /\ Done(r))
    => /\ http[r].result.kind = "response"
       /\ http[r].result.response = ("error" :> "Unauthorized: valid session required.")

\* C7: when the concept action dispatched for a request fails for a business
\* reason, the caller receives a payload with an error field through
\* respond, not a timeout and not a transport-level failure.
C7_FailuresSurfaceAsErrorPayloads ==
  \A r \in aborted :
    Done(r) => /\ http[r].result.kind = "response"
               /\ "error" \in DOMAIN http[r].result.response

\* C8: schedule reads are owner-only. A reply to a POST on
\* /CourseScheduling/getSchedule or /CourseScheduling/getSchedulesByOwner
\* carries only schedules owned by the user of the valid session the caller
\* presented; a caller without a session, or a non-owner, gets none.
C8_ScheduleReadsAreOwnerOnly ==
  \A i \in DOMAIN replies : replies[i].owners \subseteq {replies[i].caller} \ {""}

\* C9: a request whose path is one of the paths listed in a disabled-routes
\* rule is answered by that rule with its "Route disabled: ..." error payload
\* and does not time out.
C9_DisabledRoutesAreAnswered ==
  \A r \in DOMAIN http :
    (PathOf(r) \in DisabledPaths /\ Done(r))
    => /\ http[r].result.kind = "response"
       /\ \E n \in DOMAIN DisabledRules :
            http[r].result.response = ("error" :> DisabledRules[n].then[1].input["error"].v)

\* a request to /UserAuth/authenticate that carries a username and a password
AuthRequest(r) ==
  /\ r \in DOMAIN http
  /\ PathOf(r) = "/UserAuth/authenticate"
  /\ {"username", "password"} \subseteq DOMAIN requests[r].input

\* the handler of r has finished with a payload {session} or {error}
AuthAnswered(r) ==
  /\ Answered(r)
  /\ \/ DOMAIN http[r].result.response = {"session"}
     \/ DOMAIN http[r].result.response = {"error"}

Quiescent(f) == f \in DOMAIN todo /\ todo[f] = <<>> /\ f \notin aborted

\* the records of flow f for one action
RecordsOf(f, action) == {i \in DOMAIN log[f] : log[f][i].action = action}

\* the then-template t of a rule was dispatched for match m in flow f: a
\* later record of that action carries the instantiated input
Dispatched(f, t, m) ==
  \E i \in RecordsOf(f, t.action) :
    /\ \A j \in m.recs : j < i
    /\ log[f][i].input = Instantiate(t.input, m.frame)

\* every match of every rule without a guard has had its then-actions
\* dispatched in flow f
NoMissedTrigger(f) ==
  \A n \in DOMAIN Syncs :
    Syncs[n].where = NoWhere =>
      \A k \in DOMAIN Match(Syncs[n].when, log[f]) :
        \A t \in DOMAIN Syncs[n].then :
          Dispatched(f, Syncs[n].then[t], Match(Syncs[n].when, log[f])[k])

\* flow f holds a successful authenticate
AuthSucceeded(f) ==
  /\ f \in DOMAIN log
  /\ \E i \in RecordsOf(f, "UserAuth.authenticate") : "user" \in DOMAIN log[f][i].output

\* flow f holds the whole chain of a successful authentication: request,
\* authenticate, startSession for the authenticated user, respond with the
\* session that was started
AuthChainComplete(f) ==
  \E a \in RecordsOf(f, "UserAuth.authenticate"),
     b \in RecordsOf(f, "Session.startSession"),
     c \in RecordsOf(f, "Requesting.respond") :
    /\ 1 < a /\ a < b /\ b < c
    /\ log[f][1].action = "Requesting.request"
    /\ log[f][b].input = ("u" :> log[f][a].output["user"])
    /\ log[f][c].input = ("request" :> f) @@ ("session" :> log[f][b].output["session"])

\* C11: chaining without missed triggers. When an evaluation wave has ended,
\* every rule whose patterns are matched by the records of the flow has had
\* its then-actions dispatched; a successful authenticate request runs
\* Requesting.request, UserAuth.authenticate, Session.startSession and
\* Requesting.respond{session} to completion with no further external event.
C11_ChainingWithoutMissedTriggers ==
  /\ [](\A f \in DOMAIN todo :
          Quiescent(f) => /\ NoMissedTrigger(f)
                          /\ AuthSucceeded(f) => AuthChainComplete(f))
  /\ \A f \in PostPool : AuthSucceeded(f) ~> (Quiescent(f) /\ AuthChainComplete(f))

\* C11 witness: the wave of a successful authentication has ended with its
\* four records in the log
C11_Witness ==
  \E f \in DOMAIN todo :
    /\ Quiescent(f)
    /\ AuthSucceeded(f)
    /\ AuthChainComplete(f)
    /\ Len(log[f]) = 4


\* the request record of flow f is the next to be evaluated, and it asks to
\* delete a schedule that the user of its session owns
OwnerDeleteDue(f) ==
  /\ f \in DOMAIN todo
  /\ todo[f] # <<>>
  /\ Head(todo[f]) = 1
  /\ PathOf(f) = "/CourseScheduling/deleteSchedule"
  /\ {"scheduleId", "session"} \subseteq DOMAIN requests[f].input
  /\ getSession(db, requests[f].input["session"]).found
  /\ requests[f].input["scheduleId"] \in DOMAIN db.schedules
  /\ db.schedules[requests[f].input["scheduleId"]].owner
       = getSession(db, requests[f].input["session"]).userID

\* flow f holds a completed deleteSchedule
DeleteRecorded(f) ==
  f \in DOMAIN log /\ RecordsOf(f, "CourseScheduling.deleteSchedule") # {}

\* the handler of f has returned the payload {success: true}
AnsweredSuccess(f) ==
  Answered(f) /\ http[f].result.response = ("success" :> "true")

\* C12: delete scenario. For a deleteSchedule request with the valid session
\* of the owner of the schedule, the guard answers nothing and lets the frame
\* through with scheduleId kept and userId bound to the owner, deleteSchedule
\* is dispatched and removes the schedule, its record triggers the response
\* rule, and the handler returns {success: true}.
C12_DeleteScenario ==
  /\ [][\A f \in DOMAIN todo :
          (OwnerDeleteDue(f) /\ todo'[f] # todo[f]) =>
            /\ respCount'[f] = respCount[f]
            /\ Len(log'[f]) = 2
            /\ log'[f][2].action = "CourseScheduling.deleteSchedule"
            /\ log'[f][2].input =
                 ("userId" :> getSession(db, requests[f].input["session"]).userID)
                   @@ ("scheduleId" :> requests[f].input["scheduleId"])
            /\ requests[f].input["scheduleId"] \notin DOMAIN db'.schedules]_vars
  /\ [](\A f \in DOMAIN todo :
          (Quiescent(f) /\ DeleteRecorded(f)) =>
            /\ firstResp[f].value = ("success" :> "true")
            /\ respCount[f] = 1)
  /\ \A f \in PostPool : DeleteRecorded(f) ~> AnsweredSuccess(f)

\* C12 witness: the owner's delete request was answered {success: true} and
\* the schedule is gone
C12_Witness ==
  \E f \in DOMAIN http :
    /\ DeleteRecorded(f)
    /\ AnsweredSuccess(f)
    /\ requests[f].input["session"] = "tok1"
    /\ requests[f].input["scheduleId"] = "S1"
    /\ "S1" \notin DOMAIN db.schedules


\* the 'request received' record of flow f is still to be evaluated
RequestRecordDue(f) == todo[f] # <<>> /\ Head(todo[f]) = 1

\* the pending entry of r exists and nothing has resolved it
Waiting(r) == r \in pending /\ ~promise[r].settled

Unavailable == ("error" :> "Authentication service unavailable. Please try again later.")

\* authenticate has returned the 'service unavailable' payload in flow f
UnavailableReturned(f) ==
  /\ f \in DOMAIN log
  /\ \E i \in RecordsOf(f, "UserAuth.authenticate") : log[f][i].output = Unavailable

\* C23: when UserAuth.authenticate returns {error: "Authentication service
\* unavailable. Please try again later."} for an authenticate request, the
\* response delivered to the caller is that same payload.
C23_DatabaseErrorReachesClient ==
  \A f \in DOMAIN http :
    (UnavailableReturned(f) /\ Answered(f)) => http[f].result.response = Unavailable

\* f is an authenticated request to create a section that carries courseId,
\* sectionNumber, instructor, capacity and timeSlots
SectionRequest(f) ==
  /\ PathOf(f) = "/CourseScheduling/createSection"
  /\ SectionKeys \cup {"instructor", "session"} \subseteq DOMAIN requests[f].input
  /\ getSession(db, requests[f].input["session"]).found

\* C29: an authenticated /CourseScheduling/createSection request carrying
\* courseId, sectionNumber, instructor, capacity and timeSlots, with or
\* without distribution, causes exactly one CourseScheduling.createSection
\* invocation, which succeeds, and the caller receives {s: the created
\* section}: when the handler of such a request has finished, it has
\* returned {s} for the one section that was created.
C29_CreateSectionThroughRequest ==
  \A f \in DOMAIN http :
    (SectionRequest(f) /\ Done(f)) =>
      /\ Answered(f)
      /\ Cardinality(RecordsOf(f, "CourseScheduling.createSection")) = 1
      /\ DOMAIN http[f].result.response = {"s"}
      /\ http[f].result.response["s"] \in DOMAIN db.sections

\* f is a request for all schedules that GetAllSchedulesRequest matches
AllSchedulesRequest(f) ==
  /\ PathOf(f) = "/CourseScheduling/getAllSchedules"
  /\ "session" \in DOMAIN requests[f].input

\* the payload the where clause of GetAllSchedulesRequest sends for f
AllSchedulesPayload(f) ==
  LET sess == requests[f].input["session"]
  IN IF sessionInvalid(db, sess)
       THEN ("error" :> "Unauthorized: valid session required.")
       ELSE ("schedules" :>
               {x \in DOMAIN db.schedules : db.schedules[x].owner = db.sessions[sess]})

\* the guard has answered f once it has been evaluated, and no
\* Requesting.respond was dispatched as a then-action of f's flow
AnsweredByGuardOnly(f) ==
  /\ RecordsOf(f, "Requesting.respond") = {}
  /\ respCount[f] = (IF RequestRecordDue(f) THEN 0 ELSE 1)

\* a step in which a respond is executed for f executes the first one, with
\* the payload computed from the database the guard reads
GuardRespondsFor(f) ==
  respCount'[f] # respCount[f] =>
    /\ respCount[f] = 0 /\ respCount'[f] = 1
    /\ firstResp'[f] = [set |-> TRUE, value |-> AllSchedulesPayload(f)]

\* C30: GetAllSchedulesRequest resolves only inside its guard. For every
\* matched request the guard has called Requesting.respond exactly once when
\* the rule has been evaluated, with the Unauthorized error or with the
\* schedules whose owner is the session's user, and it returns no frame: no
\* Requesting.respond is ever dispatched as a then-action of the flow, and
\* no response with the empty list of the then-clause is made.
C30_GetAllSchedulesResolvesInGuard ==
  /\ [](\A f \in DOMAIN requests : AllSchedulesRequest(f) => AnsweredByGuardOnly(f))
  /\ [][\A f \in DOMAIN requests : AllSchedulesRequest(f) => GuardRespondsFor(f)]_vars

\* the caller with alice's session has received alice's schedule from the
\* guard's one respond
C30_Witness ==
  \E f \in DOMAIN http :
    /\ AllSchedulesRequest(f) /\ Answered(f)
    /\ respCount[f] = 1
    /\ http[f].result.response = ("schedules" :> {"S1"})

\* the requests made by the step
NewRequests == DOMAIN requests' \ DOMAIN requests

\* the handler of a POST replied with the result of a concept method
RepliedDirectly == Len(replies') > Len(replies)

\* the direct effect of a POST on an excluded route: one request document,
\* whose flow holds the record of Requesting.request and nothing else, with
\* the handler about to call _awaitResponse and the database untouched
OnlyRequested(r) ==
  /\ NewRequests = {r}
  /\ log'[r] = <<[seq |-> 1, action |-> "Requesting.request",
                  input |-> requests'[r].input, output |-> ("request" :> r)]>>
  /\ http'[r] = [pc |-> "requested", elapsed |-> 0, result |-> NoResult]
  /\ r \in pending'
  /\ db' = db

\* C31: excluded routes never reach a concept directly. No POST on a route
\* of exclusions is replied to with the result of the concept method; the
\* step that handles such a POST makes one Requesting.request and leaves the
\* handler before its wait on _awaitResponse; and the database changes, or a
\* flow gets a record of a concept action, only in a step in which the rules
\* are evaluated for a queued record.
C31_ExcludedRoutesReachNoConceptDirectly ==
  [][/\ RepliedDirectly => replies'[Len(replies')].path \notin Exclusions
     /\ \A r \in NewRequests :
          requests'[r].input["path"] \in Exclusions => OnlyRequested(r)
     /\ \A f \in DOMAIN log :
          (db' # db \/ Len(log'[f]) > Len(log[f])) => EngineEnabled]_vars

\* a concept action of an excluded route has run, dispatched by a rule for
\* the request of the POST
C31_Witness ==
  \E f \in DOMAIN requests :
    /\ PathOf(f) = "/UserAuth/authenticate"
    /\ PathOf(f) \in Exclusions
    /\ RecordsOf(f, "UserAuth.authenticate") # {}

\* the errors UserAuth.authenticate has returned in the flow of f
AuthenticateErrors(f) ==
  {log[f][i].output["error"] :
     i \in {j \in RecordsOf(f, "UserAuth.authenticate") : "error" \in DOMAIN log[f][j].output}}

\* the one payload of a failed authentication
InvalidCredentials == ("error" :> "Invalid username or password.")

RespondedBeforeWait(r) ==
  /\ r \in DOMAIN http
  /\ http[r].pc = "requested"
  /\ respCount[r] > 0
  /\ \A c \in BagToSet(calls) : c.request # r

\* _awaitResponse(r) has returned the payload of the first respond for r
Delivered(r) ==
  /\ Done(r)
  /\ http[r].result = [kind |-> "response", response |-> firstResp[r].value]

\* C34: a response recorded before the wait starts is still delivered. If
\* respond(r, payload) completes before _awaitResponse(r) is first called,
\* the entry of r is still pending and its promise holds payload, the call
\* of _awaitResponse(r) does not raise the 'not pending' error, the wait of
\* a request whose promise is resolved ends only by returning that payload,
\* and it does end.
C34_EarlyResponseIsDelivered ==
  /\ [](\A r \in DOMAIN http :
          RespondedBeforeWait(r) =>
            r \in pending /\ promise[r] = [settled |-> TRUE, value |-> firstResp[r].value])
  /\ [][\A r \in DOMAIN http :
          (promise[r].settled /\ ~Done(r) /\ http'[r] # http[r]) =>
            \/ http'[r].pc = "waiting"
            \/ http'[r] = [http[r] EXCEPT !.pc = "done",
                             !.result = [kind |-> "response",
                                         response |-> firstResp[r].value]]]_vars
  /\ \A r \in ReqPool : RespondedBeforeWait(r) ~> Delivered(r)

\* a respond for a request has completed, its response is stored, and the
\* handler of the request has yet to call _awaitResponse
C34_Witness ==
  \E r \in DOMAIN http :
    /\ RespondedBeforeWait(r)
    /\ requests[r].hasResponse
    /\ promise[r].settled

(***************************************************************************)
(* SpecHttp: the server, with a database that can refuse the insert of     *)
(* Requesting.request, and the reply the route handler sends.              *)
(***************************************************************************)
\* error messages, as the words they are made of
TimeoutMessage == <<"Request", "timed", "out", "after">>
NotPendingMessage ==
  <<"Request", "is", "not", "pending", "or", "does", "not", "exist:",
    "it", "may", "have", "timed-out.">>
ActionMessage == <<"All", "fields", "are", "required">>

\* the messages of the errors requests.insertOne rejects with when the
\* database cannot be reached
InsertErrors ==
  {<<"connection", "closed">>,
   <<"Server", "selection", "timed", "out", "after", "30000", "ms">>}

\* e.message.includes(text), on words
Includes(message, text) ==
  \E i \in 1..(Len(message) - Len(text) + 1) :
    SubSeq(message, i, i + Len(text) - 1) = text

\* the catch block of the route handler, for an Error with this message
CatchReply(message) ==
  IF Includes(message, <<"timed", "out">>)
    THEN [status |-> 504, body |-> ("error" :> "Request timed out.")]
    ELSE [status |-> 500, body |-> ("error" :> "An internal server error occurred.")]

\* the reply of the route handler for the outcome of its try block; none of
\* the four paths whose payload the handler unwraps is served by this route
\* for the POSTs of the model
RouteReply(result) ==
  CASE result.kind = "response" -> [status |-> 200, body |-> result.response]
    [] result.kind = "timeout" -> CatchReply(TimeoutMessage)
    [] result.kind = "notpending" -> CatchReply(NotPendingMessage)
    [] OTHER -> CatchReply(ActionMessage)

\* a POST on the Requesting route whose Requesting.request rejects: insertOne
\* fails, no entry is set, the handler replies from its catch block
RequestingPostFails ==
  \E post \in Posts, e \in InsertErrors :
    /\ PostsHandled < MaxPosts
    /\ post.path \notin PassthroughRoutes
    /\ probe' = [op |-> "post", error |-> e, reply |-> CatchReply(e)]
    /\ UNCHANGED <<pending, promise, requests, http, calls, firstResp, respCount,
                   db, log, todo, aborted, replies>>

NextHttp ==
  \/ PassthroughPost
  \/ RequestingPost
  \/ RequestingPostFails
  \/ EngineRun
  \/ AwaitStep
  \/ Tick

SpecHttp == Init /\ [][NextHttp]_vars

\* C16: every POST handled by the Requesting route ends with the respond
\* payload when the request was resolved, with status 504 and
\* {error: "Request timed out."} when the wait timed out, and with status 500
\* for any other raised error; a timeout is never delivered as a success.
C16_TimeoutIsATypedFailure ==
  /\ \A r \in DOMAIN http :
       Done(r) =>
         LET reply == RouteReply(http[r].result)
         IN CASE http[r].result.kind = "response" ->
                   reply.status = 200 /\ reply.body = http[r].result.response
              [] http[r].result.kind = "timeout" ->
                   reply = [status |-> 504, body |-> ("error" :> "Request timed out.")]
              [] OTHER -> reply.status = 500
  /\ probe.op = "post" => probe.reply.status = 500

\* a step in which the route handler has called Requesting.request: a
\* request document appeared, or the call was rejected
RequestCalled ==
  \/ DOMAIN requests' # DOMAIN requests
  \/ probe.op # "post" /\ probe'.op = "post"

\* C20: submitting a request always succeeds. Every call of request(inputs)
\* returns an id that was not issued before, the pending table holds a
\* Waiting entry for it on return, and the call runs no business action of a
\* concept (the database of the concepts is unchanged and the only record
\* of the new flow is the one of Requesting.request).
C20_RequestAlwaysSucceeds ==
  [][RequestCalled =>
       \E id \in DOMAIN requests' \ DOMAIN requests :
         /\ id \notin DOMAIN http
         /\ id \in pending'
         /\ ~promise'[id].settled
         /\ db' = db
         /\ Len(log'[id]) = 1
         /\ log'[id][1].action = "Requesting.request"]_vars

(***************************************************************************)
(* SpecGuard: one guard applied to the frames of one evaluation.           *)
(***************************************************************************)
GuardNames == {"validateSession", "validateScheduleOwnership"}

\* the where clause of the rules that use the guard
GuardClause(name) == [name |-> name, scheduleId |-> "scheduleId"]

\* session tokens and schedule identifiers a request can carry
GuardSessions == {"", "tok1", "tok2", "nope"}
GuardSchedules == {"S1", "S9"}

\* the frames a when clause binds for the requests of a set
GuardFrame(r, sess, sched) ==
  ("request" :> r) @@ ("session" :> sess) @@ ("scheduleId" :> sched)

\* frame lists with one frame for each request of a non-empty set
RECURSIVE GuardLists(_)
GuardLists(R) ==
  IF R = {} THEN {<<>>}
  ELSE UNION {{<<GuardFrame(r, sess, sched)>> \o rest :
                 sess \in GuardSessions, sched \in GuardSchedules,
                 rest \in GuardLists(R \ {r})} : r \in R}

GuardInputs == UNION {GuardLists(R) : R \in (SUBSET DOMAIN requests) \ {{}}}

\* the store a guard works on
GuardStore ==
  [promise |-> promise, pending |-> pending, requests |-> requests,
   firstResp |-> firstResp, respCount |-> respCount, db |-> db,
   log |-> <<>>, todo |-> <<>>, threw |-> FALSE]

GuardApply ==
  /\ probe = NoProbe
  /\ \E name \in GuardNames, frames \in GuardInputs, dbOk \in BOOLEAN :
       \E g \in {where(GuardClause(name), GuardStore, frames, dbOk)} :
         /\ promise' = g.st.promise
         /\ requests' = g.st.requests
         /\ firstResp' = g.st.firstResp
         /\ respCount' = g.st.respCount
         /\ probe' = [op |-> name, frames |-> frames, dbOk |-> dbOk,
                      out |-> g.frames, threw |-> g.st.threw]
  /\ UNCHANGED <<pending, http, calls, db, log, todo, aborted, replies>>

NextGuard ==
  \/ EnvRequest
  \/ GuardApply

SpecGuard == Init /\ [][NextGuard]_vars

\* the guard, given the frame alone, returns it: it neither rejects the
\* frame nor throws for it
GuardAccepts(name, frame) ==
  LET g == where(GuardClause(name), GuardStore, <<frame>>, FALSE)
  IN ~g.st.threw /\ g.frames # <<>>

\* the guard, given the frame alone, throws
GuardThrowsFor(name, frame, dbOk) ==
  where(GuardClause(name), GuardStore, <<frame>>, dbOk).st.threw

\* the request of the frame is among the frames the guard returned
Survives(frame) ==
  \E j \in DOMAIN probe.out : probe.out[j]["request"] = frame["request"]

UnauthorizedPayloads ==
  {("error" :> "Unauthorized: valid session required."),
   ("error" :> "Unauthorized: user not permitted to modify this schedule.")}

\* the guard has invoked Requesting.respond once for the request of the
\* frame, with an Unauthorized error, and has not returned the frame
Resolved(frame) ==
  /\ respCount[frame["request"]] = 1
  /\ firstResp[frame["request"]].value \in UnauthorizedPayloads
  /\ ~Survives(frame)

\* the guard has invoked no respond for the request of the frame and has
\* returned the frame once, its bindings kept and userId bound to the user
\* of its session
LetThrough(frame) ==
  /\ respCount[frame["request"]] = 0
  /\ Cardinality({j \in DOMAIN probe.out : probe.out[j]["request"] = frame["request"]}) = 1
  /\ \E j \in DOMAIN probe.out :
       probe.out[j] = ("userId" :> getSession(db, frame["session"]).userID) @@ frame

MaxLog == 3

\* a pattern on the records of a second action, joined on the request
DoOf == When("X.do", ("request" :> Var("request")), ("p" :> Var("p")))

\* the when clauses the matcher is applied to: one pattern, two patterns
\* binding the same variable (as the rules for disabled routes do), a
\* variable that occurs twice in one pattern, a join of two actions, and a
\* join of three patterns
TestWhens ==
  <<<<RequestOf("/a")>>,
    <<RequestOf("/a"), RequestOf("/b")>>,
    <<When("Requesting.request", ("path" :> Var("p")), ("request" :> Var("p")))>>,
    <<When("Requesting.request", ("path" :> Var("p")), ("request" :> Var("request"))), DoOf>>,
    <<RequestOf("/a"), DoOf, RequestOf("/b")>>>>

\* the records the log is built from (seq is given on append)
TestRecords ==
  {[action |-> "Requesting.request", input |-> ("path" :> pa), output |-> ("request" :> r)] :
     pa \in {"/a", "/b"}, r \in {"r1", "/a"}}
  \cup {[action |-> "X.do", input |-> ("request" :> r), output |-> ("p" :> pa)] :
          r \in {"r1", "/a"}, pa \in {"/a", "/b"}}
  \cup {[action |-> "Y.other", input |-> EmptyMap, output |-> EmptyMap]}

\* the record as the log holds it at position seq
Logged(r, seq) ==
  [seq |-> seq, action |-> r.action, input |-> r.input, output |-> r.output]

\* a when clause is chosen and matched against the empty log
MatchStart ==
  /\ probe = NoProbe
  /\ \E n \in DOMAIN TestWhens :
       probe' = [op |-> "match", when |-> TestWhens[n], L |-> <<>>,
                 out |-> Match(TestWhens[n], <<>>)]
  /\ UNCHANGED <<pending, promise, requests, http, calls, firstResp, respCount,
                 db, log, todo, aborted, replies>>

\* a record is appended to the log and the when clause is matched again
MatchAppend ==
  /\ probe.op = "match"
  /\ Len(probe.L) < MaxLog
  /\ \E r \in TestRecords :
       \E L \in {Append(probe.L, Logged(r, Len(probe.L) + 1))} :
         probe' = [probe EXCEPT !.L = L, !.out = Match(probe.when, L)]
  /\ UNCHANGED <<pending, promise, requests, http, calls, firstResp, respCount,
                 db, log, todo, aborted, replies>>

NextMatch ==
  \/ MatchStart
  \/ MatchAppend

SpecMatch == Init /\ [][NextMatch]_vars

\* the frames of a list of matches, as a set
FrameSet(ms) == {ms[i].frame : i \in DOMAIN ms}

\* the variables of a pattern part and of a when clause
PartVars(part) == {part[k].v : k \in {j \in DOMAIN part : part[j].var}}
WhenVars(pats) ==
  UNION {PartVars(pats[i].input) \cup PartVars(pats[i].output) : i \in DOMAIN pats}

\* the values the records of a log carry
PartValues(part) == {part[k] : k \in DOMAIN part}
LogValues(L) ==
  UNION {PartValues(L[i].input) \cup PartValues(L[i].output) : i \in DOMAIN L}

\* a record part satisfies a pattern part under a complete binding f
PartSatisfies(part, rec, f) ==
  \A k \in DOMAIN part :
    /\ k \in DOMAIN rec
    /\ rec[k] = (IF part[k].var THEN f[part[k].v] ELSE part[k].v)

\* record r satisfies pattern p under the binding f
Satisfies(p, r, f) ==
  /\ r.action = p.action
  /\ PartSatisfies(p.input, r.input, f)
  /\ PartSatisfies(p.output, r.output, f)

\* the valid joins of L under the patterns: the bindings of the variables
\* for which every pattern is satisfied by some record of L
ValidJoins(pats, L) ==
  {f \in [WhenVars(pats) -> LogValues(L)] :
     \E a \in [DOMAIN pats -> DOMAIN L] :
       \A i \in DOMAIN pats : Satisfies(pats[i], L[a[i]], f)}

\* record r matches pattern p on its own
Relevant(p, r) ==
  \E f \in [WhenVars(<<p>>) -> LogValues(<<r>>)] : Satisfies(p, r, f)

\* C17: the matcher returns exactly the valid joins of the log under the
\* patterns (a frame for which some pattern has no record is not returned),
\* and appending a record that matches none of the patterns leaves the set
\* of frames unchanged.
C17_MatcherExactnessAndIrrelevance ==
  /\ [](probe.op = "match" => FrameSet(probe.out) = ValidJoins(probe.when, probe.L))
  /\ [][(/\ probe.op = "match"
         /\ probe'.op = "match"
         /\ Len(probe'.L) = Len(probe.L) + 1
         /\ \A i \in DOMAIN probe.when :
              ~Relevant(probe.when[i], probe'.L[Len(probe'.L)]))
          => FrameSet(probe'.out) = FrameSet(probe.out)]_vars

\* C17 witness: a join of two patterns has a frame on a log of three
\* records, the last of which matches no pattern
C17_Witness ==
  /\ probe.op = "match"
  /\ Len(probe.when) = 2
  /\ Len(probe.L) = 3
  /\ Cardinality(FrameSet(probe.out)) = 1
  /\ \A i \in DOMAIN probe.when : ~Relevant(probe.when[i], probe.L[3])


\* the variable occurrences of a pattern part agree with frame f on record
\* part rec
PartAgrees(part, rec, f) ==
  \A k \in DOMAIN part :
    part[k].var => (part[k].v \in DOMAIN f /\ k \in DOMAIN rec /\ f[part[k].v] = rec[k])

\* match m pairs each pattern with one of its records, and its frame agrees
\* with every variable occurrence of that pairing
Unified(pats, L, m) ==
  \E a \in [DOMAIN pats -> m.recs] :
    /\ {a[i] : i \in DOMAIN pats} = m.recs
    /\ \A i \in DOMAIN pats :
         /\ PartAgrees(pats[i].input, L[a[i]].input, m.frame)
         /\ PartAgrees(pats[i].output, L[a[i]].output, m.frame)

\* match m continues a match of the first k patterns and keeps its bindings
KeepsBindings(pats, L, m, k) ==
  \E i \in DOMAIN Match(SubSeq(pats, 1, k), L) :
    LET m0 == Match(SubSeq(pats, 1, k), L)[i]
    IN /\ m0.recs \subseteq m.recs
       /\ \A x \in DOMAIN m0.frame : x \in DOMAIN m.frame /\ m.frame[x] = m0.frame[x]

\* two records of the log give different values to a variable that two
\* patterns of the when clause share
Conflict(pats, L) ==
  \E i, j \in DOMAIN pats, a, b \in DOMAIN L :
    /\ i < j
    /\ Relevant(pats[i], L[a])
    /\ Relevant(pats[j], L[b])
    /\ \E f \in ValidJoins(<<pats[i]>>, <<L[a]>>), g \in ValidJoins(<<pats[j]>>, <<L[b]>>) :
         \E x \in DOMAIN f \cap DOMAIN g : f[x] # g[x]

\* C18: unification failure rejects the frame. Every frame the matcher
\* returns agrees with every record it was built from at every occurrence of
\* a variable (a pairing of records that gives two values to one variable
\* yields no frame), and it keeps the bindings of the frame of the earlier
\* patterns it extends: a binding is never overwritten.
C18_UnificationFailureRejects ==
  probe.op = "match" =>
    \A n \in DOMAIN probe.out :
      /\ Unified(probe.when, probe.L, probe.out[n])
      /\ \A k \in 1..(Len(probe.when) - 1) :
           KeepsBindings(probe.when, probe.L, probe.out[n], k)

\* C18 witness: the log holds a pairing of records that conflicts on a
\* shared variable and a pairing that unifies; the matcher returned a frame
C18_Witness ==
  /\ probe.op = "match"
  /\ Len(probe.when) >= 2
  /\ Conflict(probe.when, probe.L)
  /\ probe.out # <<>>

\* the orders in which the patterns of a when clause can be declared
Orders(pats) ==
  {q \in [DOMAIN pats -> DOMAIN pats] : {q[i] : i \in DOMAIN pats} = DOMAIN pats}
Reordered(pats, q) == [i \in DOMAIN pats |-> pats[q[i]]]

\* C19: pattern-order independence. Declaring the patterns of a when clause
\* in another order does not change the set of frames.
C19_PatternOrderIndependence ==
  probe.op = "match" =>
    \A q \in Orders(probe.when) :
      FrameSet(Match(Reordered(probe.when, q), probe.L)) = FrameSet(probe.out)

\* C19 witness: a when clause of three patterns has a frame, so each of its
\* six orders has that frame
C19_Witness ==
  /\ probe.op = "match"
  /\ Len(probe.when) = 3
  /\ Cardinality(Orders(probe.when)) = 6
  /\ FrameSet(probe.out) # {}


(***************************************************************************)
(* SpecUserAuth: register and authenticate called on the users collection. *)
(***************************************************************************)
AuthUsernames == {"alice", "carol", "dave"}
AuthPasswords == {"pw1", "pw2"}

\* the call made last, its result, and the results of the registrations that
\* returned a user
NoAuthProbe == [op |-> "start", registered |-> EmptyMap]

UserAuthStart ==
  /\ probe = NoProbe
  /\ probe' = NoAuthProbe
  /\ UNCHANGED <<pending, promise, requests, http, calls, firstResp, respCount,
                 db, log, todo, aborted, replies>>

Register ==
  /\ probe.op \in {"start", "register", "authenticate"}
  /\ \E username \in AuthUsernames, password \in AuthPasswords, dbOk \in BOOLEAN :
       \E r \in {register(db, ("username" :> username) @@ ("password" :> password), dbOk)} :
         /\ db' = r.db
         /\ probe' = [op |-> "register", username |-> username, password |-> password,
                      dbOk |-> dbOk, out |-> r.out, threw |-> r.threw,
                      registered |->
                        IF "user" \in DOMAIN r.out
                          THEN (username :> [id |-> r.out["user"], password |-> password])
                                 @@ probe.registered
                          ELSE probe.registered]
  /\ UNCHANGED <<pending, promise, requests, http, calls, firstResp, respCount,
                 log, todo, aborted, replies>>

Authenticate ==
  /\ probe.op \in {"start", "register", "authenticate"}
  /\ \E username \in AuthUsernames, password \in AuthPasswords, dbOk \in BOOLEAN :
       \E r \in {authenticate(db, ("username" :> username) @@ ("password" :> password), dbOk)} :
         /\ db' = r.db
         /\ probe' = [op |-> "authenticate", username |-> username, password |-> password,
                      dbOk |-> dbOk, out |-> r.out, threw |-> r.threw,
                      registered |-> probe.registered]
  /\ UNCHANGED <<pending, promise, requests, http, calls, firstResp, respCount,
                 log, todo, aborted, replies>>

NextUserAuth ==
  \/ UserAuthStart
  \/ Register
  \/ Authenticate

SpecUserAuth == Init /\ [][NextUserAuth]_vars

\* the last call was authenticate for a username registered before it
AuthOfRegistered ==
  /\ probe.op = "authenticate"
  /\ probe.username \in DOMAIN probe.registered

\* C21 (as claimed): after register(u, p) has returned {user: x}, every later
\* authenticate(u, p) returns {user: x}, authenticate(u, q) with q # p
\* returns an error, and no action changes the username or password of a
\* stored user.
C21_PrincipleAsClaimed ==
  /\ [](AuthOfRegistered =>
          IF probe.password = probe.registered[probe.username].password
            THEN probe.out = ("user" :> probe.registered[probe.username].id)
            ELSE DOMAIN probe.out = {"error"})
  /\ [][\A u \in DOMAIN db.users :
          u \in DOMAIN db'.users /\ db'.users[u] = db.users[u]]_vars

\* C21: after register(u, p) has returned {user: x}, every later
\* authenticate(u, p) whose users.findOne succeeds returns {user: x} (it
\* returns the 'service unavailable' error when the lookup fails),
\* authenticate(u, q) with q # p returns an error, and no action changes the
\* username or password of a stored user.
C21_Principle ==
  /\ [](AuthOfRegistered =>
          IF probe.password = probe.registered[probe.username].password /\ probe.dbOk
            THEN probe.out = ("user" :> probe.registered[probe.username].id)
            ELSE DOMAIN probe.out = {"error"})
  /\ [][\A u \in DOMAIN db.users :
          u \in DOMAIN db'.users /\ db'.users[u] = db.users[u]]_vars

\* C21 witness: two users were registered, and the first of them has just
\* authenticated with its password and got the id its registration returned
C21_Witness ==
  /\ AuthOfRegistered
  /\ Cardinality(DOMAIN probe.registered) = 2
  /\ probe.password = probe.registered[probe.username].password
  /\ probe.out = ("user" :> "U3")


\* the last call was one of the two actions of UserAuth
UserAuthCalled == probe.op \in {"register", "authenticate"}

\* C22: register and authenticate never throw. Each call returns {user} or
\* {error}, also when the database operation fails, and a call that returns
\* {error} leaves the stored users unchanged.
C22_UserAuthNeverThrows ==
  /\ [](UserAuthCalled =>
          /\ ~probe.threw
          /\ DOMAIN probe.out \in {{"user"}, {"error"}}
          /\ ~probe.dbOk => DOMAIN probe.out = {"error"})
  /\ [][(probe'.op \in {"register", "authenticate"} /\ "error" \in DOMAIN probe'.out)
          => db'.users = db.users]_vars

\* C22 witness: after a registration, both actions have met a failing
\* database: the last call is an authenticate that returned the 'service
\* unavailable' error and the users are the registered ones
C22_Witness ==
  /\ probe.op = "authenticate"
  /\ ~probe.dbOk
  /\ probe.out = ("error" :> "Authentication service unavailable. Please try again later.")
  /\ probe.registered # EmptyMap
  /\ DOMAIN db.users = {"alice", "bob"} \cup DOMAIN probe.registered


(***************************************************************************)
(* SpecSchedules: the schedule mutations of CourseScheduling called on the *)
(* schedules collection.                                                   *)
(***************************************************************************)
MaxSchedules == 3

SchedUsers == {"U1", "U2"}
SchedIds == {"S1", "S2", "S9"}
SchedSections == {"X1", "X2"}
SchedNames == {"Copy"}

\* the operations of this specification
SchedOps == {"addSection", "removeSection", "deleteSchedule", "duplicateSchedule"}

\* the call made last: operation, input, result
Called(op, input, r) ==
  [op |-> op, input |-> input, out |-> r.out, threw |-> r.threw,
   message |-> IF r.threw THEN r.message ELSE ""]

\* a call can be made at the start and after any other call
SchedReady == probe = NoProbe \/ probe.op \in SchedOps

SectionInput(userId, scheduleId, sectionId) ==
  ("userId" :> userId) @@ ("scheduleId" :> scheduleId) @@ ("sectionId" :> sectionId)

AddSection ==
  /\ SchedReady
  /\ \E userId \in SchedUsers, scheduleId \in SchedIds, sectionId \in SchedSections :
       \E input \in {SectionInput(userId, scheduleId, sectionId)} :
         \E r \in {addSection(db, input)} :
           /\ db' = r.db
           /\ probe' = Called("addSection", input, r)
  /\ UNCHANGED <<pending, promise, requests, http, calls, firstResp, respCount,
                 log, todo, aborted, replies>>

RemoveSection ==
  /\ SchedReady
  /\ \E userId \in SchedUsers, scheduleId \in SchedIds, sectionId \in SchedSections :
       \E input \in {SectionInput(userId, scheduleId, sectionId)} :
         \E r \in {removeSection(db, input)} :
           /\ db' = r.db
           /\ probe' = Called("removeSection", input, r)
  /\ UNCHANGED <<pending, promise, requests, http, calls, firstResp, respCount,
                 log, todo, aborted, replies>>

DeleteSchedule ==
  /\ SchedReady
  /\ \E userId \in SchedUsers, scheduleId \in SchedIds :
       \E input \in {("userId" :> userId) @@ ("scheduleId" :> scheduleId)} :
         \E r \in {deleteSchedule(db, input)} :
           /\ db' = r.db
           /\ probe' = Called("deleteSchedule", input, r)
  /\ UNCHANGED <<pending, promise, requests, http, calls, firstResp, respCount,
                 log, todo, aborted, replies>>

DuplicateSchedule ==
  /\ SchedReady
  /\ db.schedulesMade < MaxSchedules
  /\ \E userId \in SchedUsers, scheduleId \in SchedIds, newName \in SchedNames :
       \E input \in {("userId" :> userId) @@ ("sourceScheduleId" :> scheduleId)
                       @@ ("newName" :> newName)} :
         \E r \in {duplicateSchedule(db, input)} :
           /\ db' = r.db
           /\ probe' = Called("duplicateSchedule", input, r)
  /\ UNCHANGED <<pending, promise, requests, http, calls, firstResp, respCount,
                 log, todo, aborted, replies>>

NextSchedules ==
  \/ AddSection
  \/ RemoveSection
  \/ DeleteSchedule
  \/ DuplicateSchedule

SpecSchedules == Init /\ [][NextSchedules]_vars

\* the number of times x occurs in the array
Occurrences(arr, x) == Cardinality({i \in DOMAIN arr : arr[i] = x})

\* the last call was addSection by the owner of the schedule it names
OwnerAdded ==
  /\ probe.op = "addSection"
  /\ probe.input["scheduleId"] \in DOMAIN db.schedules
  /\ db.schedules[probe.input["scheduleId"]].owner = probe.input["userId"]

\* C24: addSection is idempotent. After addSection(u, s, x) by the owner of
\* s, the call has not raised and x is in sectionIds exactly once; a second
\* addSection(u, s, x) does not raise and leaves the schedules as they are.
C24_AddSectionIdempotent ==
  OwnerAdded =>
    /\ ~probe.threw
    /\ Occurrences(db.schedules[probe.input["scheduleId"]].sectionIds,
                   probe.input["sectionId"]) = 1
    /\ ~addSection(db, probe.input).threw
    /\ addSection(db, probe.input).db = db

\* C24 witness: the owner has added to a schedule a section that it held
\* already, beside another section
C24_Witness ==
  /\ OwnerAdded
  /\ ~probe.threw
  /\ Len(db.schedules[probe.input["scheduleId"]].sectionIds) = 2
  /\ db.schedules[probe.input["scheduleId"]].sectionIds[1] = probe.input["sectionId"]


\* the schedule a call names
TargetOf(call) ==
  IF call.op = "duplicateSchedule" THEN call.input["sourceScheduleId"]
  ELSE call.input["scheduleId"]

\* in database d the schedule of the call does not exist
UnknownTarget(d, call) == TargetOf(call) \notin DOMAIN d.schedules

\* in database d the schedule of the call exists and its owner is not the
\* user of the call
NotOwner(d, call) ==
  /\ TargetOf(call) \in DOMAIN d.schedules
  /\ d.schedules[TargetOf(call)].owner # call.input["userId"]

\* C25: addSection, removeSection, deleteSchedule or duplicateSchedule called
\* with a scheduleId that does not exist or with a userId that is not the
\* owner of the schedule leaves the schedules collection unchanged.
C25_RefusedMutationsChangeNothing ==
  [][(/\ probe'.op \in SchedOps
      /\ UnknownTarget(db, probe') \/ NotOwner(db, probe'))
       => db' = db]_vars

\* C25 witness: a user who is not the owner has called removeSection for a
\* section the schedule holds, and the schedule, one of two, still holds it
C25_Witness ==
  /\ probe.op = "removeSection"
  /\ NotOwner(db, probe)
  /\ Occurrences(db.schedules[TargetOf(probe)].sectionIds, probe.input["sectionId"]) = 1
  /\ Cardinality(DOMAIN db.schedules) = 2

\* C26: error outcomes of the schedule mutations. For an unknown schedule or
\* a userId that is not the owner, addSection raises 'Schedule not found or
\* unauthorized', deleteSchedule raises 'Schedule not found' or
\* 'Unauthorized', duplicateSchedule raises 'Source schedule not found' or
\* 'Unauthorized'; removeSection never raises, also for a section that is
\* not in the schedule.
C26_ErrorOutcomes ==
  [][probe'.op \in SchedOps =>
       CASE probe'.op = "removeSection" -> ~probe'.threw
         [] probe'.op = "addSection" ->
              (UnknownTarget(db, probe') \/ NotOwner(db, probe')) =>
                probe'.threw /\ probe'.message = "Schedule not found or unauthorized"
         [] probe'.op = "deleteSchedule" ->
              /\ UnknownTarget(db, probe') =>
                   probe'.threw /\ probe'.message = "Schedule not found"
              /\ NotOwner(db, probe') => probe'.threw /\ probe'.message = "Unauthorized"
         [] OTHER ->
              /\ UnknownTarget(db, probe') =>
                   probe'.threw /\ probe'.message = "Source schedule not found"
              /\ NotOwner(db, probe') => probe'.threw /\ probe'.message = "Unauthorized"]_vars

\* C26 witness: addSection for a schedule that its owner has deleted raised
\* 'Schedule not found or unauthorized'
C26_Witness ==
  /\ probe.op = "addSection"
  /\ probe.input["scheduleId"] = "S1"
  /\ probe.input["userId"] = "U1"
  /\ "S1" \notin DOMAIN db.schedules
  /\ probe.threw
  /\ probe.message = "Schedule not found or unauthorized"

\* C27: duplicateSchedule(u, s, n) by the owner u of an existing schedule s
\* adds exactly one schedule, whose id is not the id of an existing
\* schedule, whose name is n, whose owner is u and whose sectionIds are the
\* current sectionIds of s; s and every other schedule are unchanged.
C27_DuplicateScheduleResult ==
  [][(/\ probe'.op = "duplicateSchedule"
      /\ ~UnknownTarget(db, probe')
      /\ ~NotOwner(db, probe'))
       => /\ ~probe'.threw
          /\ DOMAIN probe'.out = {"s"}
          /\ probe'.out["s"] \notin DOMAIN db.schedules
          /\ DOMAIN db'.schedules = DOMAIN db.schedules \cup {probe'.out["s"]}
          /\ db'.schedules[probe'.out["s"]] =
               [owner |-> probe'.input["userId"], name |-> probe'.input["newName"],
                sectionIds |-> db.schedules[TargetOf(probe')].sectionIds]
          /\ \A x \in DOMAIN db.schedules : db'.schedules[x] = db.schedules[x]]_vars

\* C27 witness: a schedule with two sections was duplicated, and the copy
\* holds the same two sections in the same order
C27_Witness ==
  /\ probe.op = "duplicateSchedule"
  /\ ~probe.threw
  /\ TargetOf(probe) \in DOMAIN db.schedules
  /\ Len(db.schedules[probe.out["s"]].sectionIds) = 2
  /\ db.schedules[probe.out["s"]].sectionIds = db.schedules[TargetOf(probe)].sectionIds
  /\ db.schedules[probe.out["s"]].name = "Copy"


(***************************************************************************)
(* SpecPair: the server with several requests in flight at the same time.  *)
(***************************************************************************)
\* the number of requests the clients of SpecPair send
MaxInFlight == 2

\* two users authenticate, and two users create a schedule
PairPosts ==
  {Post("/UserAuth/authenticate", ("username" :> "alice") @@ ("password" :> "pw1"), ""),
   Post("/UserAuth/authenticate", ("username" :> "bob") @@ ("password" :> "pw2"), ""),
   Post("/CourseScheduling/createSchedule", ("name" :> "Fall"), "tok1"),
   Post("/CourseScheduling/createSchedule", ("name" :> "Winter"), "tok2")}

ConcurrentPost ==
  \E post \in PairPosts :
    /\ Cardinality(DOMAIN requests) < MaxInFlight
    /\ RequestingRoute(post)

NextPair ==
  \/ ConcurrentPost
  \/ EngineRun
  \/ AwaitStep
  \/ Tick

SpecPair == Init /\ [][NextPair]_vars

\* the values of key k output by the records of action in flow f
OutputsOf(f, action, k) ==
  {log[f][i].output[k] : i \in {j \in RecordsOf(f, action) : k \in DOMAIN log[f][j].output}}

\* payload is made of values that the actions caused by request f have
\* output: the session started for the user f named, or the schedule
\* created for the user and with the name of f
OwnValues(f, payload) ==
  /\ "session" \in DOMAIN payload =>
       /\ payload["session"] \in OutputsOf(f, "Session.startSession", "session")
       /\ db.sessions[payload["session"]] = db.users[requests[f].input["username"]].id
  /\ "s" \in DOMAIN payload =>
       /\ payload["s"] \in OutputsOf(f, "CourseScheduling.createSchedule", "s")
       /\ db.schedules[payload["s"]].owner = db.sessions[requests[f].input["session"]]
       /\ db.schedules[payload["s"]].name = requests[f].input["name"]

TemplatesOf(action) ==
  UNION {{<<i, j>> : j \in {k \in DOMAIN Syncs[i].then : Syncs[i].then[k].action = action}} :
           i \in DOMAIN Syncs}

\* the number of pairs of a then-template of T and a combination of
\* records of flow f that matches the when clause of its rule
RECURSIVE CombinationsOver(_, _)
CombinationsOver(f, T) ==
  IF T = {} THEN 0
  ELSE LET t == CHOOSE y \in T : TRUE
       IN Len(Match(Syncs[t[1]].when, log[f])) + CombinationsOver(f, T \ {t})

Combinations(f, action) == CombinationsOver(f, TemplatesOf(action))

\* the actions that rules dispatch into flow f
DispatchedActions(f) == {log[f][i].action : i \in DOMAIN log[f] \ {1}}

cacheExpirationHours == 24

\* the answers of the rating service to a search: a professor, none, or a
\* failed request
RmpAnswers == {"found", "none", "failed"}

\* fetchRatingFromRMP(instructorName) at time now: the rating of the first
\* professor found, or the empty rating, which has no schoolName and no rmpId
fetchRatingFromRMP(instructorName, now, answer) ==
  IF answer = "found"
    THEN [instructorName |-> instructorName, schoolName |-> "Wellesley College",
          rating |-> "4.5", difficulty |-> "3.1", numRatings |-> "12",
          wouldTakeAgainPercent |-> "90", rmpId |-> "77", lastUpdated |-> now]
    ELSE [instructorName |-> instructorName, rating |-> "null", difficulty |-> "null",
          numRatings |-> "0", wouldTakeAgainPercent |-> "null", lastUpdated |-> now]

\* findOne({instructorName}): the entries found, at most one
getCachedRating(d, instructorName) ==
  IF instructorName \in DOMAIN d.professorRatings
    THEN {d.professorRatings[instructorName]} ELSE {}

\* cacheAge < maxAge
isCacheValid(rating, now) == now - rating.lastUpdated < cacheExpirationHours

\* {$set: rating} on a document: the fields of rating are set, the other
\* fields of the document stay
SetFields(doc, rating) ==
  [k \in DOMAIN doc \cup DOMAIN rating |-> IF k \in DOMAIN rating THEN rating[k] ELSE doc[k]]

\* updateCache(rating): updateOne({instructorName}, {$set: rating}, {upsert:
\* true}); an error of the write is caught and logged
updateCache(d, rating, writeOk) ==
  LET name == rating.instructorName
  IN IF ~writeOk THEN d
     ELSE IF name \in DOMAIN d.professorRatings
       THEN [d EXCEPT !.professorRatings[name] = SetFields(@, rating)]
     ELSE [d EXCEPT !.professorRatings = (name :> rating) @@ @]

\* getOrFetchRating(instructorName); fetched is whether the rating service
\* was contacted
getOrFetchRating(d, instructorName, now, answer, writeOk) ==
  LET cached == getCachedRating(d, instructorName)
      freshRating == fetchRatingFromRMP(instructorName, now, answer)
  IN IF cached # {} /\ (\A c \in cached : isCacheValid(c, now))
       THEN [db |-> d, out |-> CHOOSE c \in cached : TRUE, fetched |-> FALSE]
       ELSE [db |-> updateCache(d, freshRating, writeOk), out |-> freshRating,
             fetched |-> TRUE]

(***************************************************************************)
(* SpecRatings: getOrFetchRating called as the hours pass.                 *)
(***************************************************************************)
\* the clock stops after MaxHours hours
MaxHours == 26

RatingNames == {"Kim", "Lee"}

RatingsStart ==
  /\ probe = NoProbe
  /\ probe' = [op |-> "ratings", now |-> 0]
  /\ UNCHANGED <<pending, promise, requests, http, calls, firstResp, respCount,
                 db, log, todo, aborted, replies>>

HourPasses ==
  /\ probe.op \in {"ratings", "getOrFetchRating"}
  /\ probe.now < MaxHours
  /\ probe' = [op |-> "ratings", now |-> probe.now + 1]
  /\ UNCHANGED <<pending, promise, requests, http, calls, firstResp, respCount,
                 db, log, todo, aborted, replies>>

GetOrFetchRating ==
  /\ probe.op \in {"ratings", "getOrFetchRating"}
  /\ \E name \in RatingNames, answer \in RmpAnswers, writeOk \in BOOLEAN :
       \E r \in {getOrFetchRating(db, name, probe.now, answer, writeOk)} :
         /\ db' = r.db
         /\ probe' = [op |-> "getOrFetchRating", now |-> probe.now, name |-> name,
                      before |-> getCachedRating(db, name), writeOk |-> writeOk,
                      fresh |-> fetchRatingFromRMP(name, probe.now, answer),
                      out |-> r.out, fetched |-> r.fetched]
  /\ UNCHANGED <<pending, promise, requests, http, calls, firstResp, respCount,
                 log, todo, aborted, replies>>

NextRatings ==
  \/ RatingsStart
  \/ HourPasses
  \/ GetOrFetchRating

SpecRatings == Init /\ [][NextRatings]_vars

\* the call made last found an entry less than 24 hours old
FoundFresh ==
  \E c \in probe.before : probe.now - c.lastUpdated < 24

\* C33: rating cache freshness. getOrFetchRating(name) returns the cached
\* entry without contacting the rating service if and only if an entry for
\* name exists whose age is strictly less than 24 hours; otherwise it
\* fetches, upserts the fetched entry under name and returns it. Stated of
\* the calls whose write to the cache succeeds.
C33_RatingCacheFreshness ==
  (probe.op = "getOrFetchRating" /\ probe.writeOk) =>
    /\ ~probe.fetched <=> FoundFresh
    /\ FoundFresh => probe.out \in probe.before /\ getCachedRating(db, probe.name) = probe.before
    /\ ~FoundFresh => probe.out = probe.fresh /\ getCachedRating(db, probe.name) = {probe.fresh}
====
